---- MODULE Spec2Model ----
(***************************************************************************)
(* Model of the Amplitude CLI storage core: the SQLite connection wrapper  *)
(* (database/connection.rs) and the migration manager                      *)
(* (database/migrations.rs).                                               *)
(*                                                                         *)
(* The store is what SQLite keeps for the single connection: `committed`   *)
(* is the content of the database file, `store` is what the connection     *)
(* sees (the file plus the writes of the open transaction), `in_tx` is     *)
(* SQLite's "a transaction is active" flag.  SQL text is kept as text: a   *)
(* batch is a sequence of statements, Parse gives each its meaning.        *)
(* A write statement can also fail for a reason outside the program (disk  *)
(* full, I/O error): operations take the step at which that happens as an  *)
(* input.  The timestamp column applied_at is left out: no operation       *)
(* reads it.                                                               *)
(*                                                                         *)
(* On top of the store runs one process of the tool at a time (main.rs):   *)
(* `cli` is its command line and the part of its environment it looks at,  *)
(* `pc` the position of its main path, `task` the position of the          *)
(* interrupt-shutdown task, `refs` the holders of the Arc<Database>,       *)
(* `stdout` and `stderr` what it wrote so far.  The error taxonomy         *)
(* (common/errors.rs) and the two renderers (presentation/) are operators. *)
(* Text is kept as a sequence of its parts, so that formatting is          *)
(* concatenation.                                                          *)
(***************************************************************************)
EXTENDS Integers, Sequences, FiniteSets, TLC

VARIABLES
    migrations,   \* MigrationManager.migrations: BTreeMap<u32, Migration>
    store,        \* the database as the connection sees it
    committed,    \* the database as last committed
    in_tx,        \* SQLite: a transaction is active on the connection
    tx,           \* the caller's live DatabaseTransaction handles, oldest first
    result,       \* outcome of the last operation
    edits,        \* history: number of catalog edits made so far
    cli,          \* the process: its arguments and environment
    pc,           \* the process: position of the main path
    task,         \* the process: position of the shutdown task
    refs,         \* the process: holders of a reference to the Database
    closed,       \* the process: database::cleanup was called
    stdout,       \* the process: what it wrote to standard output
    stderr,       \* the process: what it wrote to standard error
    exit_code,    \* the process: its exit status, once it has exited
    ret,          \* the process: what async_main returned to main
    answers,      \* the process: what was typed at its prompts so far
    h0,           \* the process: connection and output when the handler began
    applying,     \* the process: the migration apply_migration is in the middle of
    holders,      \* the process: the connection references callers hold
    calls,        \* the process: each thread's call on the connection in progress
    table_data,   \* the process: the JSON value Output::table is called with
    log_buffer,   \* the process: LOG_BUFFER, the entries kept for the crash log
    logged        \* the process: how many entries add_to_buffer was handed so far

dbVars == <<migrations, store, committed, in_tx, tx, result, edits>>
cliVars == <<cli, pc, task, refs, closed, stdout, stderr, exit_code, ret, answers, h0,
             applying, holders, calls, table_data, log_buffer, logged>>
vars == <<migrations, store, committed, in_tx, tx, result, edits,
          cli, pc, task, refs, closed, stdout, stderr, exit_code, ret, answers, h0,
          applying, holders, calls, table_data, log_buffer, logged>>

(***************************** bounds **************************************)
MaxEdits == 1      \* catalog edits in one behaviour
MaxId == 2         \* highest projects.id handed out
MaxHandles == 2    \* transaction handles a caller asks for at a time
MaxRows == 2       \* rows of the array table is given
MaxCell == 5       \* bytes of the longest string in a cell
MaxLogs == 1003    \* entries logged in one behaviour

ProjectNames == {"a", "b"}
ProjectPaths == {"p", "q"}

(*************************** small helpers *********************************)
RECURSIVE SortedSeq(_)
SortedSeq(S) ==
    IF S = {} THEN <<>>
    ELSE LET m == CHOOSE x \in S : \A y \in S : x <= y
         IN <<m>> \o SortedSeq(S \ {m})

MaxOf(S) == IF S = {} THEN 0 ELSE CHOOSE x \in S : \A y \in S : y <= x

None == <<>>
Some(x) == <<x>>

(************************* the migration catalog ***************************)
\* MigrationManager::new: the four shipped migrations.  A batch is the
\* sequence of its statements; down_sql is an Option.
ShippedMigrations ==
    (1 :> [version |-> 1,
           description |-> <<"Initial schema - create migrations table">>,
           up_sql |-> <<"CREATE TABLE IF NOT EXISTS schema_migrations",
                        "CREATE INDEX IF NOT EXISTS idx_migrations_applied_at ON schema_migrations">>,
           down_sql |-> Some(<<"DROP TABLE IF EXISTS schema_migrations">>)])
 @@ (2 :> [version |-> 2,
           description |-> <<"Create projects table">>,
           up_sql |-> <<"CREATE TABLE IF NOT EXISTS projects",
                        "CREATE INDEX IF NOT EXISTS idx_projects_name ON projects",
                        "CREATE INDEX IF NOT EXISTS idx_projects_created_at ON projects",
                        "CREATE TRIGGER IF NOT EXISTS update_projects_updated_at ON projects">>,
           down_sql |-> Some(<<"DROP TABLE IF EXISTS projects">>)])
 @@ (3 :> [version |-> 3,
           description |-> <<"Create templates table">>,
           up_sql |-> <<"CREATE TABLE IF NOT EXISTS templates",
                        "CREATE INDEX IF NOT EXISTS idx_projects_name ON projects",
                        "CREATE INDEX IF NOT EXISTS idx_projects_created_at ON projects",
                        "CREATE TRIGGER IF NOT EXISTS update_projects_updated_at ON projects">>,
           down_sql |-> Some(<<"DROP TABLE IF EXISTS projects">>)])
 @@ (4 :> [version |-> 4,
           description |-> <<"Create configuration table">>,
           up_sql |-> <<"CREATE TABLE IF NOT EXISTS configuration",
                        "CREATE INDEX IF NOT EXISTS idx_configuration_updated_at ON configuration",
                        "CREATE TRIGGER IF NOT EXISTS update_configuration_updated_at ON configuration",
                        "INSERT OR IGNORE INTO configuration">>,
           down_sql |-> Some(<<"DROP TABLE IF EXISTS configuration">>)])

\* The keys of the rows migration 4 inserts.
DefaultConfiguration == {"version", "auto_update", "telemetry_enabled"}

(****************************** SQL ****************************************)
\* What each statement of the catalog means to SQLite.
Parse(sql) ==
    CASE sql = "CREATE TABLE IF NOT EXISTS schema_migrations" ->
            [op |-> "create_table", name |-> "schema_migrations", on |-> ""]
      [] sql = "CREATE INDEX IF NOT EXISTS idx_migrations_applied_at ON schema_migrations" ->
            [op |-> "create_index", name |-> "idx_migrations_applied_at", on |-> "schema_migrations"]
      [] sql = "DROP TABLE IF EXISTS schema_migrations" ->
            [op |-> "drop_table", name |-> "schema_migrations", on |-> ""]
      [] sql = "CREATE TABLE IF NOT EXISTS projects" ->
            [op |-> "create_table", name |-> "projects", on |-> ""]
      [] sql = "CREATE INDEX IF NOT EXISTS idx_projects_name ON projects" ->
            [op |-> "create_index", name |-> "idx_projects_name", on |-> "projects"]
      [] sql = "CREATE INDEX IF NOT EXISTS idx_projects_created_at ON projects" ->
            [op |-> "create_index", name |-> "idx_projects_created_at", on |-> "projects"]
      [] sql = "CREATE TRIGGER IF NOT EXISTS update_projects_updated_at ON projects" ->
            [op |-> "create_trigger", name |-> "update_projects_updated_at", on |-> "projects"]
      [] sql = "DROP TABLE IF EXISTS projects" ->
            [op |-> "drop_table", name |-> "projects", on |-> ""]
      [] sql = "CREATE TABLE IF NOT EXISTS templates" ->
            [op |-> "create_table", name |-> "templates", on |-> ""]
      [] sql = "CREATE TABLE IF NOT EXISTS configuration" ->
            [op |-> "create_table", name |-> "configuration", on |-> ""]
      [] sql = "CREATE INDEX IF NOT EXISTS idx_configuration_updated_at ON configuration" ->
            [op |-> "create_index", name |-> "idx_configuration_updated_at", on |-> "configuration"]
      [] sql = "CREATE TRIGGER IF NOT EXISTS update_configuration_updated_at ON configuration" ->
            [op |-> "create_trigger", name |-> "update_configuration_updated_at", on |-> "configuration"]
      [] sql = "INSERT OR IGNORE INTO configuration" ->
            [op |-> "insert_defaults", name |-> "configuration", on |-> ""]
      [] sql = "DROP TABLE IF EXISTS configuration" ->
            [op |-> "drop_table", name |-> "configuration", on |-> ""]

\* A database file that was just created.
EmptyStore ==
    [tables |-> {}, indexes |-> {}, triggers |-> {},
     schema_migrations |-> {}, projects |-> {}, sqlite_sequence |-> 0,
     configuration |-> {}]

\* DROP TABLE: the table goes with its rows, its indexes and its triggers
\* (and, for an AUTOINCREMENT table, its sqlite_sequence row).
DropTable(s, t) ==
    [s EXCEPT !.tables = @ \ {t},
              !.indexes = {i \in @ : i.on # t},
              !.triggers = {g \in @ : g.on # t},
              !.schema_migrations = IF t = "schema_migrations" THEN {} ELSE @,
              !.projects = IF t = "projects" THEN {} ELSE @,
              !.sqlite_sequence = IF t = "projects" THEN 0 ELSE @,
              !.configuration = IF t = "configuration" THEN {} ELSE @]

\* SQLite's execution of one statement on database content s:
\* [ok, store].  A statement that fails changes nothing.
SqlExec(s, st) ==
    CASE st.op = "create_table" ->
            [ok |-> TRUE, store |-> [s EXCEPT !.tables = @ \cup {st.name}]]
      [] st.op = "create_index" ->
            IF st.on \notin s.tables THEN [ok |-> FALSE, store |-> s]
            ELSE IF \E i \in s.indexes : i.name = st.name THEN [ok |-> TRUE, store |-> s]
            ELSE [ok |-> TRUE,
                  store |-> [s EXCEPT !.indexes = @ \cup {[name |-> st.name, on |-> st.on]}]]
      [] st.op = "create_trigger" ->
            IF st.on \notin s.tables THEN [ok |-> FALSE, store |-> s]
            ELSE IF \E g \in s.triggers : g.name = st.name THEN [ok |-> TRUE, store |-> s]
            ELSE [ok |-> TRUE,
                  store |-> [s EXCEPT !.triggers = @ \cup {[name |-> st.name, on |-> st.on]}]]
      [] st.op = "drop_table" ->
            [ok |-> TRUE, store |-> DropTable(s, st.name)]
      [] st.op = "insert_defaults" ->
            IF "configuration" \notin s.tables THEN [ok |-> FALSE, store |-> s]
            ELSE [ok |-> TRUE,
                  store |-> [s EXCEPT !.configuration = @ \cup DefaultConfiguration]]
      [] st.op = "insert_migration" ->
            \* version is the PRIMARY KEY; `entry` is no column: it notes, for
            \* the properties, the catalog entry the row was written from
            IF \/ "schema_migrations" \notin s.tables
               \/ \E r \in s.schema_migrations : r.version = st.version
            THEN [ok |-> FALSE, store |-> s]
            ELSE [ok |-> TRUE,
                  store |-> [s EXCEPT !.schema_migrations = @ \cup
                                {[version |-> st.version,
                                  description |-> st.description,
                                  checksum |-> st.checksum,
                                  entry |-> st.entry]}]]
      [] st.op = "delete_migration" ->
            IF "schema_migrations" \notin s.tables THEN [ok |-> FALSE, store |-> s]
            ELSE [ok |-> TRUE,
                  store |-> [s EXCEPT !.schema_migrations =
                                {r \in @ : r.version # st.version}]]
      [] st.op = "insert_project" ->
            \* id INTEGER PRIMARY KEY AUTOINCREMENT, name TEXT NOT NULL UNIQUE
            IF \/ "projects" \notin s.tables
               \/ \E p \in s.projects : p.name = st.name
            THEN [ok |-> FALSE, store |-> s]
            ELSE [ok |-> TRUE,
                  store |-> [s EXCEPT !.projects = @ \cup
                                {[id |-> s.sqlite_sequence + 1,
                                  name |-> st.name, path |-> st.path]},
                             !.sqlite_sequence = @ + 1]]
      [] st.op = "delete_project" ->
            IF "projects" \notin s.tables THEN [ok |-> FALSE, store |-> s]
            ELSE [ok |-> TRUE,
                  store |-> [s EXCEPT !.projects = {p \in @ : p.id # st.id}]]

(*************************** the connection ********************************)
\* A connection is [store, committed, in_tx].  Outside a transaction SQLite
\* commits every statement as it completes.
Conn == [store |-> store, committed |-> committed, in_tx |-> in_tx]

\* conn.execute(sql, params) for a write statement; `fault` says the
\* environment fails it.
ConnExecute(c, st, fault) ==
    IF fault THEN [ok |-> FALSE, c |-> c]
    ELSE LET r == SqlExec(c.store, st)
         IN [ok |-> r.ok,
             c |-> [c EXCEPT !.store = r.store,
                             !.committed = IF c.in_tx THEN @ ELSE r.store]]

\* conn.execute("BEGIN TRANSACTION"): SQLite refuses to nest.
ConnBegin(c, fault) ==
    IF fault \/ c.in_tx THEN [ok |-> FALSE, c |-> c]
    ELSE [ok |-> TRUE, c |-> [c EXCEPT !.in_tx = TRUE]]

\* conn.execute("COMMIT")
ConnCommit(c, fault) ==
    IF fault \/ ~c.in_tx THEN [ok |-> FALSE, c |-> c]
    ELSE [ok |-> TRUE, c |-> [c EXCEPT !.in_tx = FALSE, !.committed = c.store]]

\* conn.execute("ROLLBACK")
ConnRollback(c) ==
    IF ~c.in_tx THEN [ok |-> FALSE, c |-> c]
    ELSE [ok |-> TRUE, c |-> [c EXCEPT !.in_tx = FALSE, !.store = c.committed]]

\* conn.execute_batch(sql): the statements in order, stopping at the first
\* that fails; the ones before it have taken effect.  failAt is the index of
\* the statement the environment fails (0: none).
RECURSIVE ConnExecuteBatch(_, _, _)
ConnExecuteBatch(c, sqls, failAt) ==
    IF sqls = <<>> THEN [ok |-> TRUE, c |-> c]
    ELSE LET r == ConnExecute(c, Parse(Head(sqls)), failAt = 1)
         IN IF ~r.ok THEN r
            ELSE ConnExecuteBatch(r.c, Tail(sqls), failAt - 1)

(************************ DatabaseTransaction ******************************)
\* Mutants of Drop: one that issues nothing, one that issues COMMIT.
DatabaseTransaction_drop_forget(c, isCommitted) == c

DatabaseTransaction_drop_commits(c, isCommitted) ==
    IF ~isCommitted THEN ConnCommit(c, FALSE).c ELSE c

\* impl Drop for DatabaseTransaction: ROLLBACK unless committed; the result
\* of the ROLLBACK is ignored.
DatabaseTransaction_drop(c, isCommitted) ==
    IF ~isCommitted THEN ConnRollback(c).c ELSE c

\* Mutant of new: the handle is built before BEGIN, so a failed BEGIN
\* drops it.
DatabaseTransaction_new_dropOnFail(c, fault) ==
    LET r == ConnBegin(c, fault)
    IN IF r.ok THEN r ELSE [ok |-> FALSE, c |-> DatabaseTransaction_drop(r.c, FALSE)]

\* Mutant of new: no BEGIN is issued, the statements commit one by one.
DatabaseTransaction_new_noBegin(c, fault) == [ok |-> TRUE, c |-> c]

\* DatabaseTransaction::new: BEGIN; a handle exists only when it succeeded.
DatabaseTransaction_new(c, fault) == ConnBegin(c, fault)

\* DatabaseTransaction::execute
DatabaseTransaction_execute(c, st, fault) == ConnExecute(c, st, fault)

\* DatabaseTransaction::execute_batch
DatabaseTransaction_execute_batch(c, sqls, failAt) == ConnExecuteBatch(c, sqls, failAt)

\* Mutant of commit: the handle is forgotten instead of dropped.
DatabaseTransaction_commit_leak(c, fault) == ConnCommit(c, fault)

\* DatabaseTransaction::commit(mut self): COMMIT, then committed = true; the
\* handle is consumed, so it is dropped on both paths.
DatabaseTransaction_commit(c, fault) ==
    LET r == ConnCommit(c, fault)
    IN [ok |-> r.ok, c |-> DatabaseTransaction_drop(r.c, r.ok)]

\* DatabaseTransaction::rollback(mut self): ROLLBACK, then committed = true.
DatabaseTransaction_rollback(c) ==
    LET r == ConnRollback(c)
    IN [ok |-> r.ok, c |-> DatabaseTransaction_drop(r.c, r.ok)]

(************************** MigrationManager *******************************)
\* impl Hash for str: the bytes, then the byte 0xff.
HashStr(h, s) == h \o s \o <<"0xff">>

\* calculate_checksum: what is fed to the hasher, in order.  The 64-bit
\* SipHash and its hex rendering are taken to be collision-free, so the
\* checksum is identified with the hashed stream.
calculate_checksum(m) ==
    LET h1 == <<ToString(m.version)>>
        h2 == HashStr(h1, m.description)
        h3 == HashStr(h2, m.up_sql)
    IN IF m.down_sql # None THEN HashStr(h3, m.down_sql[1]) ELSE h3

\* Mutant of get_current_version: the existence check names another table.
get_current_version_notable(s) == 0

\* get_current_version: 0 without the tracking table, else
\* COALESCE(MAX(version), 0).
get_current_version(s) ==
    IF "schema_migrations" \notin s.tables THEN 0
    ELSE MaxOf({r.version : r \in s.schema_migrations})

\* apply_migration.  The write statements it issues are numbered: 1 is
\* BEGIN, 2 .. n+1 the n forward statements, n+2 the INSERT of the record,
\* n+3 COMMIT; failStep is the one the environment fails (0: none).
apply_migration(c, m, failStep) ==
    LET n == Len(m.up_sql)
        t == DatabaseTransaction_new(c, failStep = 1)
        b == DatabaseTransaction_execute_batch(t.c, m.up_sql, failStep - 1)
        ins == DatabaseTransaction_execute(b.c,
                  [op |-> "insert_migration", version |-> m.version,
                   description |-> m.description,
                   checksum |-> calculate_checksum(m), entry |-> m],
                  failStep = n + 2)
        cm == DatabaseTransaction_commit(ins.c, failStep = n + 3)
    IN IF ~t.ok THEN [ok |-> FALSE, c |-> t.c, stage |-> "begin"]
       ELSE IF ~b.ok
       THEN [ok |-> FALSE, c |-> DatabaseTransaction_drop(b.c, FALSE), stage |-> "sql"]
       ELSE IF ~ins.ok
       THEN [ok |-> FALSE, c |-> DatabaseTransaction_drop(ins.c, FALSE), stage |-> "record"]
       ELSE IF ~cm.ok THEN [ok |-> FALSE, c |-> cm.c, stage |-> "commit"]
       ELSE [ok |-> TRUE, c |-> cm.c, stage |-> ""]

\* Mutant of the loop: a failed migration is noted and the loop goes on.
RECURSIVE RunPending_continue(_, _, _, _, _, _)
RunPending_continue(c, cat, pending, fault, applied, before) ==
    IF pending = <<>>
    THEN [ok |-> TRUE, c |-> c, applied |-> applied, failed |-> 0, stage |-> "",
          before |-> before]
    ELSE LET v == Head(pending)
             r == apply_migration(c, cat[v], IF fault.version = v THEN fault.step ELSE 0)
             rest == RunPending_continue(r.c, cat, Tail(pending), fault,
                        IF r.ok THEN Append(applied, v) ELSE applied, c.store)
         IN IF ~r.ok
            THEN [ok |-> FALSE, c |-> rest.c, applied |-> rest.applied, failed |-> v,
                  stage |-> r.stage, before |-> c.store]
            ELSE rest

\* Mutant of the loop: it returns after the first pending migration.
RunPending_first(c, cat, pending, fault, applied, before) ==
    IF pending = <<>>
    THEN [ok |-> TRUE, c |-> c, applied |-> applied, failed |-> 0, stage |-> "",
          before |-> before]
    ELSE LET v == Head(pending)
             r == apply_migration(c, cat[v], IF fault.version = v THEN fault.step ELSE 0)
         IN [ok |-> r.ok, c |-> r.c, applied |-> IF r.ok THEN <<v>> ELSE <<>>,
             failed |-> IF r.ok THEN 0 ELSE v, stage |-> r.stage, before |-> c.store]

\* The loop of run_migrations over the pending versions, in ascending
\* order, stopping at the first failure: the error names the version (the
\* outer context) and the stage that failed (the inner one).  `before` is
\* the store as it was when the last attempted migration started.
RECURSIVE RunPending(_, _, _, _, _, _)
RunPending(c, cat, pending, fault, applied, before) ==
    IF pending = <<>>
    THEN [ok |-> TRUE, c |-> c, applied |-> applied, failed |-> 0, stage |-> "",
          before |-> before]
    ELSE LET v == Head(pending)
             r == apply_migration(c, cat[v], IF fault.version = v THEN fault.step ELSE 0)
         IN IF ~r.ok
            THEN [ok |-> FALSE, c |-> r.c, applied |-> applied, failed |-> v,
                  stage |-> r.stage, before |-> c.store]
            ELSE RunPending(r.c, cat, Tail(pending), fault, Append(applied, v), c.store)

\* Mutant of run_migrations: the filter is version >= current_version.
run_migrations_ge(c, cat, fault) ==
    LET current_version == get_current_version(c.store)
        pending_migrations == SortedSeq({k \in DOMAIN cat : k >= current_version})
    IN RunPending(c, cat, pending_migrations, fault, <<>>, c.store)

\* run_migrations
run_migrations(c, cat, fault) ==
    LET current_version == get_current_version(c.store)
        pending_migrations == SortedSeq({k \in DOMAIN cat : k > current_version})
    IN RunPending(c, cat, pending_migrations, fault, <<>>, c.store)

\* Mutant of rollback_migration: the statements go to the connection
\* directly, outside a transaction.
rollback_migration_autocommit(c, cat, version, failStep) ==
    IF version \notin DOMAIN cat THEN [ok |-> FALSE, c |-> c, stage |-> "not found"]
    ELSE IF cat[version].down_sql = None
    THEN [ok |-> FALSE, c |-> c, stage |-> "no rollback"]
    ELSE LET down_sql == cat[version].down_sql[1]
             n == Len(down_sql)
             b == ConnExecuteBatch(c, down_sql, failStep - 1)
             del == ConnExecute(b.c, [op |-> "delete_migration", version |-> version],
                                failStep = n + 2)
         IN IF ~b.ok THEN [ok |-> FALSE, c |-> b.c, stage |-> "sql"]
            ELSE IF ~del.ok THEN [ok |-> FALSE, c |-> del.c, stage |-> "record"]
            ELSE [ok |-> TRUE, c |-> del.c, stage |-> ""]

\* Mutant of rollback_migration: a migration without down_sql has its
\* record removed all the same.
rollback_migration_noDown(c, cat, version, failStep) ==
    IF version \notin DOMAIN cat THEN [ok |-> FALSE, c |-> c, stage |-> "not found"]
    ELSE LET down_sql == IF cat[version].down_sql = None THEN <<>>
                         ELSE cat[version].down_sql[1]
             n == Len(down_sql)
             t == DatabaseTransaction_new(c, failStep = 1)
             b == DatabaseTransaction_execute_batch(t.c, down_sql, failStep - 1)
             del == DatabaseTransaction_execute(b.c,
                       [op |-> "delete_migration", version |-> version],
                       failStep = n + 2)
             cm == DatabaseTransaction_commit(del.c, failStep = n + 3)
         IN IF ~t.ok THEN [ok |-> FALSE, c |-> t.c, stage |-> "begin"]
            ELSE IF ~b.ok
            THEN [ok |-> FALSE, c |-> DatabaseTransaction_drop(b.c, FALSE), stage |-> "sql"]
            ELSE IF ~del.ok
            THEN [ok |-> FALSE, c |-> DatabaseTransaction_drop(del.c, FALSE),
                  stage |-> "record"]
            ELSE IF ~cm.ok THEN [ok |-> FALSE, c |-> cm.c, stage |-> "commit"]
            ELSE [ok |-> TRUE, c |-> cm.c, stage |-> ""]

\* rollback_migration.  Steps: 1 BEGIN, 2 .. n+1 the backward statements,
\* n+2 the DELETE of the record, n+3 COMMIT.
rollback_migration(c, cat, version, failStep) ==
    IF version \notin DOMAIN cat THEN [ok |-> FALSE, c |-> c, stage |-> "not found"]
    ELSE IF cat[version].down_sql = None
    THEN [ok |-> FALSE, c |-> c, stage |-> "no rollback"]
    ELSE LET down_sql == cat[version].down_sql[1]
             n == Len(down_sql)
             t == DatabaseTransaction_new(c, failStep = 1)
             b == DatabaseTransaction_execute_batch(t.c, down_sql, failStep - 1)
             del == DatabaseTransaction_execute(b.c,
                       [op |-> "delete_migration", version |-> version],
                       failStep = n + 2)
             cm == DatabaseTransaction_commit(del.c, failStep = n + 3)
         IN IF ~t.ok THEN [ok |-> FALSE, c |-> t.c, stage |-> "begin"]
            ELSE IF ~b.ok
            THEN [ok |-> FALSE, c |-> DatabaseTransaction_drop(b.c, FALSE), stage |-> "sql"]
            ELSE IF ~del.ok
            THEN [ok |-> FALSE, c |-> DatabaseTransaction_drop(del.c, FALSE),
                  stage |-> "record"]
            ELSE IF ~cm.ok THEN [ok |-> FALSE, c |-> cm.c, stage |-> "commit"]
            ELSE [ok |-> TRUE, c |-> cm.c, stage |-> ""]

\* verify_migrations: the SELECT fails without the tracking table; the loop
\* over the records, ORDER BY version, returns at the first record that has
\* no catalog entry or whose stored checksum differs.
verify_migrations(s, cat) ==
    LET bad == {r.version : r \in
                  {q \in s.schema_migrations :
                      \/ q.version \notin DOMAIN cat
                      \/ q.checksum # calculate_checksum(cat[q.version])}}
        first == SortedSeq(bad)[1]
    IN IF "schema_migrations" \notin s.tables
       THEN [ok |-> FALSE, version |-> 0, stage |-> "no such table"]
       ELSE IF bad # {}
       THEN [ok |-> FALSE, version |-> first,
             stage |-> IF first \in DOMAIN cat THEN "modified" ELSE "unknown"]
       ELSE [ok |-> TRUE, version |-> 0, stage |-> ""]

(******************************* state *************************************)
(***************************** registry **********************************)
\* Mutant of db_create_project: INSERT OR REPLACE, the row of the same name
\* gives way to the new one.
db_create_project_replace(c, project) ==
    LET gone == [c EXCEPT !.store.projects = {p \in @ : p.name # project.name}]
    IN ConnExecute(gone, [op |-> "insert_project", name |-> project.name,
                          path |-> project.path], FALSE)

\* db_create_project: INSERT INTO projects (name, path, template) through a
\* prepared statement on the connection.
db_create_project(c, project) ==
    ConnExecute(c, [op |-> "insert_project", name |-> project.name,
                    path |-> project.path], FALSE)

\* db_forget_project: DELETE FROM projects WHERE id = $1
db_forget_project(c, id) ==
    ConnExecute(c, [op |-> "delete_project", id |-> id], FALSE)

\* db_get_project_by_name: SELECT * FROM projects WHERE name = $1, then
\* results.first().ok_or_else(..): an error when the table is missing and
\* also when no row has the name.
db_get_project_by_name(s, name) ==
    LET rows == {p \in s.projects : p.name = name}
    IN IF "projects" \notin s.tables \/ rows = {}
       THEN [ok |-> FALSE, project |-> None]
       ELSE [ok |-> TRUE, project |-> Some(CHOOSE p \in rows : TRUE)]

(*************************** error taxonomy ********************************)
\* common/errors.rs, mod codes
ERR_VALIDATION_SCHEMA == -31001
ERR_VALIDATION_FIELD == -31002
ERR_VALIDATION_FORMAT == -31003
ERR_ASSET_NOT_FOUND == -30001
ERR_ASSET_ALREADY_EXISTS == -30002
ERR_ASSET_IN_USE == -30003
ERR_PROJECT_NOT_INITIALIZED == -29001
ERR_PROJECT_NOT_REGISTERED == -29002
ERR_PROJECT_ALREADY_EXISTS == -29003
ERR_TEMPLATE_COPY_FAILED == -29004
ERR_SDK_NOT_FOUND == -28001
ERR_SDK_SCHEMA_LOAD_FAILED == -28002

\* common/errors.rs, mod exit_codes
SUCCESS == 0
USER_ERROR == 1
SYSTEM_ERROR == 2

\* Mutant of error_type_name: the arms of the ranges only.
error_type_name_ranges(code) ==
    CASE code \in -31999..-31000 -> "validation_error"
      [] code \in -30999..-30000 -> "asset_error"
      [] code \in -29999..-29000 -> "project_error"
      [] code \in -28999..-28000 -> "sdk_error"
      [] OTHER -> "unknown_error"

\* error_type_name(code): the first arm that matches
error_type_name(code) ==
    CASE code = ERR_VALIDATION_SCHEMA -> "schema_validation_error"
      [] code = ERR_VALIDATION_FIELD -> "field_validation_error"
      [] code = ERR_VALIDATION_FORMAT -> "format_validation_error"
      [] code \in -31999..-31000 -> "validation_error"
      [] code = ERR_ASSET_NOT_FOUND -> "asset_not_found"
      [] code = ERR_ASSET_ALREADY_EXISTS -> "asset_already_exists"
      [] code = ERR_ASSET_IN_USE -> "asset_in_use"
      [] code \in -30999..-30000 -> "asset_error"
      [] code = ERR_PROJECT_NOT_INITIALIZED -> "project_not_initialized"
      [] code = ERR_PROJECT_NOT_REGISTERED -> "project_not_registered"
      [] code = ERR_PROJECT_ALREADY_EXISTS -> "project_already_exists"
      [] code = ERR_TEMPLATE_COPY_FAILED -> "template_copy_failed"
      [] code \in -29999..-29000 -> "project_error"
      [] code = ERR_SDK_NOT_FOUND -> "sdk_not_found"
      [] code = ERR_SDK_SCHEMA_LOAD_FAILED -> "schema_load_failed"
      [] code \in -28999..-28000 -> "sdk_error"
      [] OTHER -> "unknown_error"

\* error_suggestion(code): the default suggestion of a code
error_suggestion(code) ==
    CASE code = ERR_PROJECT_NOT_REGISTERED ->
            "Register the project with 'am project register <path>'"
      [] code = ERR_PROJECT_NOT_INITIALIZED ->
            "Initialize a project with 'am project init <name>'"
      [] code = ERR_PROJECT_ALREADY_EXISTS ->
            "Use a different name or remove the existing project first"
      [] code = ERR_TEMPLATE_COPY_FAILED ->
            "Check file permissions and ensure the template path is correct"
      [] code = ERR_SDK_NOT_FOUND ->
            "Set the AM_SDK_PATH environment variable to your SDK installation"
      [] code = ERR_SDK_SCHEMA_LOAD_FAILED ->
            "Verify your SDK installation is complete and AM_SDK_PATH is correct"
      [] code = ERR_ASSET_NOT_FOUND ->
            "Verify the asset name or create it with the appropriate create command"
      [] code = ERR_ASSET_ALREADY_EXISTS ->
            "Use a different name or delete the existing asset first"
      [] code = ERR_ASSET_IN_USE ->
            "Remove references to this asset from other assets before modifying"
      [] code = ERR_VALIDATION_SCHEMA ->
            "Check that your JSON structure matches the expected schema"
      [] code = ERR_VALIDATION_FIELD ->
            "Check your input values and correct the invalid field"
      [] code = ERR_VALIDATION_FORMAT -> "Check the format of your input and try again"
      [] code \in -31999..-31000 -> "Check your input values and try again"
      [] code \in -30999..-30000 -> "Verify the asset exists or create it first"
      [] code \in -29999..-29000 -> "Initialize a project or register an existing one"
      [] code \in -28999..-28000 -> "Set AM_SDK_PATH environment variable"
      [] OTHER -> "Check the error message for details"

\* An anyhow::Error is either a CliError (is_cli) or some other error with
\* a message.  CliError::new(code, what, why)
CliError_new(code, what, why) ==
    [is_cli |-> TRUE, code |-> code, what |-> what, why |-> why,
     suggestion |-> error_suggestion(code), context |-> None]

\* CliError::with_suggestion
with_suggestion(e, suggestion) == [e EXCEPT !.suggestion = suggestion]

\* CliError::with_context
with_context(e, context) == [e EXCEPT !.context = Some(context)]

\* anyhow::anyhow!(message)
anyhow(message) == [is_cli |-> FALSE, message |-> message]

\* project_not_initialized(path)
project_not_initialized(path) ==
    with_context(CliError_new(ERR_PROJECT_NOT_INITIALIZED,
                              <<"Project is not initialized">>,
                              "The directory does not contain a .amproject file"),
                 path)

\* project_already_exists(name)
project_already_exists(name) ==
    CliError_new(ERR_PROJECT_ALREADY_EXISTS,
                 <<"Project '", name, "' already exists">>,
                 "A project with this name is already registered")

\* impl Display for CliError ("{what}: {why}" and " ({context})"), and the
\* message of any other error
to_string(e) ==
    IF e.is_cli
    THEN e.what \o <<": ", e.why>> \o
         (IF e.context # None THEN <<" (", e.context[1], ")">> ELSE <<>>)
    ELSE e.message

\* Mutant of determine_exit_code: an error that is no CliError counts as a
\* user error.
determine_exit_code_default1(error) ==
    IF error.is_cli /\ error.code \in -28999..-28000 THEN SYSTEM_ERROR ELSE USER_ERROR

\* determine_exit_code(error)
determine_exit_code(error) ==
    IF error.is_cli
    THEN IF error.code \in -28999..-28000 THEN SYSTEM_ERROR ELSE USER_ERROR
    ELSE SYSTEM_ERROR

(***************************** renderers ***********************************)
\* Logger::should_display(level)
should_display(level, verbose) ==
    IF level \in {"debug", "trace"} THEN verbose ELSE TRUE

\* impl Log for Logger, log(record): the line goes to the crash-log buffer
\* and, when its level is displayed, to standard output (println!).
Logger_log(level, message, verbose) ==
    IF should_display(level, verbose)
    THEN <<[kind |-> "log", level |-> level, text |-> message]>>
    ELSE <<>>

\* Logger::log_success (the success! macro): always println!
Logger_log_success(message) == <<[kind |-> "log", level |-> "success", text |-> message]>>

\* presentation/json.rs, error_type_from_code(code)
error_type_from_code(code) ==
    CASE code = -31001 -> "schema_validation_error"
      [] code = -31002 -> "field_validation_error"
      [] code = -31003 -> "format_validation_error"
      [] code \in -31999..-31000 -> "validation_error"
      [] code = -30001 -> "asset_not_found"
      [] code = -30002 -> "asset_already_exists"
      [] code = -30003 -> "asset_in_use"
      [] code \in -30999..-30000 -> "asset_error"
      [] code = -29001 -> "project_not_initialized"
      [] code = -29002 -> "project_not_registered"
      [] code = -29003 -> "project_already_exists"
      [] code \in -29999..-29000 -> "project_error"
      [] code = -28001 -> "sdk_not_found"
      [] code = -28002 -> "schema_load_failed"
      [] code \in -28999..-28000 -> "sdk_error"
      [] OTHER -> "unknown_error"

\* presentation/json.rs, suggestion_from_code(code)
suggestion_from_code(code) ==
    CASE code \in -31999..-31000 -> "Check your input values and try again"
      [] code \in -30999..-30000 -> "Verify the asset exists or create it first"
      [] code \in -29999..-29000 -> "Initialize a project or register an existing one"
      [] code \in -28999..-28000 -> "Set AM_SDK_PATH environment variable"
      [] OTHER -> "Check the error message for details"

\* JsonOutput::build_success_response(data).  A JSON object is a record of
\* its keys; a field that serialization skips is no key.
build_success_response(data) == [ok |-> TRUE, value |-> data]

\* Mutant of build_error_response: the code of the envelope is always -1.
build_error_response_nocode(err, code) ==
    [ok |-> FALSE,
     error |-> [code |-> -1,
                type |-> error_type_from_code(code),
                message |-> to_string(err),
                suggestion |-> suggestion_from_code(code)]]

\* JsonOutput::build_error_response(err, code), serialized: JsonErrorDetails
\* has the fields code, type, message and suggestion.
build_error_response(err, code) ==
    [ok |-> FALSE,
     error |-> [code |-> code,
                type |-> error_type_from_code(code),
                message |-> to_string(err),
                suggestion |-> suggestion_from_code(code)]]

Envelope(body) == <<[kind |-> "envelope", body |-> body]>>

\* impl Output for JsonOutput / InteractiveOutput: what a call writes to
\* standard output.
Output_success(mode, data, verbose) ==
    IF mode = "Json" THEN Envelope(build_success_response(data))
    ELSE Logger_log_success(data)

Output_error(mode, err, code, verbose) ==
    IF mode = "Json" THEN Envelope(build_error_response(err, code))
    ELSE IF err.is_cli
         THEN Logger_log("error", <<"Error: ">> \o err.what, verbose)
              \o (IF err.context # None
                  THEN Logger_log("error", <<"  Context: ", err.context[1]>>, verbose)
                  ELSE <<>>)
              \o Logger_log("error", <<"">>, verbose)
              \o Logger_log("error", <<"Why: ", err.why>>, verbose)
              \o Logger_log("error", <<"Fix: ", err.suggestion>>, verbose)
         ELSE Logger_log("error", to_string(err), verbose)

Output_progress(mode, message, verbose) ==
    IF mode = "Json" THEN <<>> ELSE Logger_log("info", message, verbose)

\* JsonOutput::table: a no-op.  InteractiveOutput::table: the title, and
\* for a non-empty array the header between two separators, a line per
\* row and a closing separator.
RECURSIVE TableRows(_, _)
TableRows(rows, verbose) ==
    IF rows = <<>> THEN <<>>
    ELSE Logger_log("info", <<" ", Head(rows).name>>, verbose) \o TableRows(Tail(rows), verbose)

JsonOutput_table(title, data) == <<>>

Output_table(mode, title, data, verbose) ==
    IF mode = "Json" THEN JsonOutput_table(title, data)
    ELSE Logger_log("info", <<title>>, verbose)
         \o (IF data = <<>> THEN <<>>
             ELSE Logger_log("info", <<"---">>, verbose)
                  \o Logger_log("info", <<" name  path  registered_at">>, verbose)
                  \o Logger_log("info", <<"---">>, verbose)
                  \o TableRows(data, verbose)
                  \o Logger_log("info", <<"---">>, verbose))

\* The threads of the process: main, and the task async_main spawns.
Threads == {"main", "task"}

\* A thread that is in no call on the connection.
Idle == [op |-> "none", left |-> <<>>, guard |-> FALSE, ok |-> TRUE, committed |-> TRUE,
         version |-> 0, done |-> <<>>, closed |-> FALSE]

\* serde_json::Value::Null
JsonNull == [t |-> "null"]

\* The outcome of an operation: whether it returned Ok; for an error, the
\* version and the stage it names; the versions a run applied; and (for the
\* properties) the store the operation, or its last migration, started on.
Outcome(op, ok, version, stage, applied, before) ==
    [op |-> op, ok |-> ok, version |-> version, stage |-> stage,
     applied |-> applied, before |-> before]

Init ==
    /\ migrations = ShippedMigrations
    /\ store = EmptyStore
    /\ committed = EmptyStore
    /\ in_tx = FALSE
    /\ tx = <<>>
    /\ result = Outcome("new", TRUE, 0, "", <<>>, EmptyStore)
    /\ edits = 0
    /\ cli = [json |-> FALSE, non_interactive |-> FALSE, verbose |-> FALSE,
              cmd |-> [cmd |-> "none"], amproject |-> None, dir_nonempty |-> FALSE,
              tty |-> FALSE, db |-> FALSE, template_row |-> None,
              output_mode |-> "Interactive", input_mode |-> "Interactive"]
    /\ pc = "idle"
    /\ task = "none"
    /\ refs = {}
    /\ closed = FALSE
    /\ stdout = <<>>
    /\ stderr = <<>>
    /\ exit_code = None
    /\ ret = None
    /\ answers = <<>>
    /\ h0 = [c |-> [store |-> EmptyStore, committed |-> EmptyStore, in_tx |-> FALSE],
             stdout |-> <<>>]
    /\ applying = None
    /\ holders = {}
    /\ calls = [t \in Threads |-> Idle]
    /\ table_data = JsonNull
    /\ log_buffer = None
    /\ logged = 0

SetConn(c) ==
    /\ store' = c.store
    /\ committed' = c.committed
    /\ in_tx' = c.in_tx

NoFault == [version |-> 0, step |-> 0]

\* The steps of apply_migration at which the environment can fail, for the
\* versions a run would apply.
Faults ==
    {NoFault} \cup
    UNION {{[version |-> v, step |-> k] : k \in 1..(Len(migrations[v].up_sql) + 3)} :
              v \in {k \in DOMAIN migrations : k > get_current_version(store)}}

\* The steps of rollback_migration at which the environment can fail.
RollbackSteps(version) ==
    IF version \in DOMAIN migrations /\ migrations[version].down_sql # None
    THEN 0..(Len(migrations[version].down_sql[1]) + 3)
    ELSE {0}

\* The versions a caller passes: those of the catalog and one beyond.
Versions == 1..(MaxOf(DOMAIN ShippedMigrations) + 1)

\* MigrationManager::run_migrations(db)
RunMigrations(fault) ==
    LET r == run_migrations(Conn, migrations, fault)
    IN /\ SetConn(r.c)
       /\ result' = Outcome("run_migrations", r.ok, r.failed, r.stage, r.applied, r.before)
       /\ UNCHANGED cliVars
       /\ UNCHANGED <<migrations, tx, edits>>

\* MigrationManager::rollback_migration(db, version)
RollbackMigration(version, failStep) ==
    LET r == rollback_migration(Conn, migrations, version, failStep)
    IN /\ SetConn(r.c)
       /\ result' = Outcome("rollback_migration", r.ok, version, r.stage, <<>>, store)
       /\ UNCHANGED cliVars
       /\ UNCHANGED <<migrations, tx, edits>>

\* MigrationManager::verify_migrations(db)
VerifyMigrations ==
    LET r == verify_migrations(store, migrations)
    IN /\ result' = Outcome("verify_migrations", r.ok, r.version, r.stage, <<>>, store)
       /\ UNCHANGED cliVars
       /\ UNCHANGED <<migrations, store, committed, in_tx, tx, edits>>

\* Database::transaction(): the caller gets a handle when BEGIN succeeded.
\* The handle remembers (for the properties) the store it began on.
Transaction(fault) ==
    /\ Len(tx) < MaxHandles
    /\ LET r == DatabaseTransaction_new(Conn, fault)
       IN /\ SetConn(r.c)
          /\ tx' = IF r.ok THEN Append(tx, [begin |-> store]) ELSE tx
          /\ result' = Outcome("transaction", r.ok, 0, "", <<>>, store)
    /\ UNCHANGED cliVars
    /\ UNCHANGED <<migrations, edits>>

\* The statements a caller runs through its handle.
TxStatements ==
    {[op |-> "insert_project", name |-> n, path |-> p] :
        n \in ProjectNames, p \in ProjectPaths}
    \cup {[op |-> "delete_project", id |-> i] : i \in 1..MaxId}

\* DatabaseTransaction::execute through one of the caller's handles
TxExecute(st, fault) ==
    /\ tx # <<>>
    /\ st.op = "insert_project" => store.sqlite_sequence < MaxId
    /\ LET r == DatabaseTransaction_execute(Conn, st, fault)
       IN /\ SetConn(r.c)
          /\ result' = Outcome("execute", r.ok, 0, "", <<>>, store)
    /\ UNCHANGED cliVars
    /\ UNCHANGED <<migrations, tx, edits>>

\* DatabaseTransaction::commit on the caller's latest handle
TxCommit(fault) ==
    /\ tx # <<>>
    /\ LET r == DatabaseTransaction_commit(Conn, fault)
       IN /\ SetConn(r.c)
          /\ result' = Outcome("commit", r.ok, 0, "", <<>>, store)
    /\ tx' = SubSeq(tx, 1, Len(tx) - 1)
    /\ UNCHANGED cliVars
    /\ UNCHANGED <<migrations, edits>>

\* DatabaseTransaction::rollback on the caller's latest handle
TxRollback ==
    /\ tx # <<>>
    /\ LET r == DatabaseTransaction_rollback(Conn)
       IN /\ SetConn(r.c)
          /\ result' = Outcome("rollback", r.ok, 0, "", <<>>, store)
    /\ tx' = SubSeq(tx, 1, Len(tx) - 1)
    /\ UNCHANGED cliVars
    /\ UNCHANGED <<migrations, edits>>

\* The caller's latest handle goes out of scope without commit or rollback.
TxDrop ==
    /\ tx # <<>>
    /\ SetConn(DatabaseTransaction_drop(Conn, FALSE))
    /\ result' = Outcome("drop", TRUE, 0, "", <<>>, store)
    /\ tx' = SubSeq(tx, 1, Len(tx) - 1)
    /\ UNCHANGED cliVars
    /\ UNCHANGED <<migrations, edits>>

\* db_create_project(project, database).  The outcome notes (for the
\* properties) in `stage` whether the name is the one the call before
\* forgot.
DbCreateProject(name, path) ==
    /\ store.sqlite_sequence < MaxId
    /\ LET r == db_create_project(Conn, [name |-> name, path |-> path])
       IN /\ SetConn(r.c)
          /\ result' = Outcome("db_create_project", r.ok, 0,
                               IF result.op = "db_forget_project" /\ result.ok
                                  /\ \E p \in result.before.projects :
                                        p.id = result.version /\ p.name = name
                               THEN "forgotten" ELSE "",
                               <<name, path>>, store)
    /\ UNCHANGED cliVars
    /\ UNCHANGED <<migrations, tx, edits>>

\* db_forget_project(id, database)
DbForgetProject(id) ==
    /\ LET r == db_forget_project(Conn, id)
       IN /\ SetConn(r.c)
          /\ result' = Outcome("db_forget_project", r.ok, id, "", <<>>, store)
    /\ UNCHANGED cliVars
    /\ UNCHANGED <<migrations, tx, edits>>

\* db_get_project_by_name(name, database).  The outcome notes in `stage`
\* what was returned: Ok(Some(..)), Ok(None) or Err, and in `version` the
\* id of the project returned.
DbGetProjectByName(name) ==
    /\ LET r == db_get_project_by_name(store, name)
       IN result' = Outcome("db_get_project_by_name", r.ok,
                            IF r.ok /\ r.project # None THEN r.project[1].id ELSE 0,
                            IF ~r.ok THEN "Err"
                            ELSE IF r.project = None THEN "Ok(None)" ELSE "Ok(Some)",
                            <<name>>, store)
    /\ UNCHANGED cliVars
    /\ UNCHANGED <<migrations, store, committed, in_tx, tx, edits>>

\* A version of the tool with an edited catalog entry is installed: the
\* entry's description, its forward statements (the last one removed), its
\* backward statements (removed, or the last forward statement moved to
\* their front) or its version changes.
EditKinds == {"description", "up_sql", "down_none", "shift", "version"}

EditEntry(m, kind) ==
    CASE kind = "description" -> [m EXCEPT !.description = Append(@, "(edited)")]
      [] kind = "up_sql" -> [m EXCEPT !.up_sql = SubSeq(@, 1, Len(@) - 1)]
      [] kind = "down_none" -> [m EXCEPT !.down_sql = None]
      [] kind = "shift" ->
            IF m.down_sql = None \/ m.up_sql = <<>> THEN m
            ELSE [m EXCEPT !.up_sql = SubSeq(@, 1, Len(@) - 1),
                           !.down_sql = Some(<<m.up_sql[Len(m.up_sql)]>> \o @[1])]
      [] kind = "version" ->
            [m EXCEPT !.version = @ + Cardinality(DOMAIN ShippedMigrations)]

EditCatalog(k, kind) ==
    /\ edits < MaxEdits
    /\ tx = <<>>
    /\ LET m == EditEntry(migrations[k], kind)
       IN /\ m # migrations[k]
          /\ migrations' =
                IF kind = "version"
                THEN [j \in (DOMAIN migrations \ {k}) \cup {m.version} |->
                         IF j = m.version THEN m ELSE migrations[j]]
                ELSE [migrations EXCEPT ![k] = m]
    /\ edits' = edits + 1
    /\ result' = Outcome("edit", TRUE, k, kind, <<>>, store)
    /\ UNCHANGED cliVars
    /\ UNCHANGED <<store, committed, in_tx, tx>>

Next ==
    \/ \E f \in Faults : RunMigrations(f)
    \/ \E v \in Versions : \E k \in RollbackSteps(v) : RollbackMigration(v, k)
    \/ VerifyMigrations
    \/ \E f \in BOOLEAN : Transaction(f)
    \/ \E st \in TxStatements, f \in BOOLEAN : TxExecute(st, f)
    \/ \E f \in BOOLEAN : TxCommit(f)
    \/ TxRollback
    \/ TxDrop
    \/ \E n \in ProjectNames, p \in ProjectPaths : DbCreateProject(n, p)
    \/ \E i \in 1..MaxId : DbForgetProject(i)
    \/ \E n \in ProjectNames : DbGetProjectByName(n)

Spec == Init /\ [][Next]_vars

\* The store across versions of the tool: the migration manager's
\* operations (here without failures of the environment), and catalog edits
\* in between.
NextCatalog ==
    \/ RunMigrations(NoFault)
    \/ \E v \in Versions : RollbackMigration(v, 0)
    \/ VerifyMigrations
    \/ \E k \in DOMAIN migrations, kind \in EditKinds : EditCatalog(k, kind)

SpecCatalog == Init /\ [][NextCatalog]_vars

(******************* a migration, statement by statement *******************)
\* apply_migration as the steps it takes on the connection, so that the
\* process can end between any two of them.  `applying` is
\* Some([version, step, begin]): the migration, the number of statements
\* done since BEGIN, and the store BEGIN was issued on.
InFlight == migrations[applying[1].version]

\* run_migrations: the next pending version of the loop.
NextPending ==
    {k \in DOMAIN migrations :
        /\ k > get_current_version(store)
        /\ \A j \in DOMAIN migrations : j > get_current_version(store) => k <= j}

\* The `?` after a failed step: the handle goes out of scope (Drop).
ApplyFailed(c, stage) ==
    /\ SetConn(DatabaseTransaction_drop(c, FALSE))
    /\ applying' = None
    /\ result' = Outcome("apply_migration", FALSE, applying[1].version, stage, <<>>,
                         applying[1].begin)

\* let transaction = db.transaction()?;
ApplyBegin(fault) ==
    /\ applying = None
    /\ tx = <<>>
    /\ \E v \in NextPending :
          \E t \in {DatabaseTransaction_new(Conn, fault)} :
             /\ SetConn(t.c)
             /\ applying' = IF t.ok
                            THEN Some([version |-> v, step |-> 0, begin |-> store])
                            ELSE None
             /\ result' = Outcome("transaction", t.ok, v, IF t.ok THEN "" ELSE "begin",
                                  <<>>, store)
    /\ UNCHANGED <<migrations, tx, edits>>
    /\ UNCHANGED <<cli, pc, task, refs, closed, stdout, stderr, exit_code, ret, answers, h0,
                   holders, calls,
                   table_data, log_buffer, logged>>

\* transaction.execute_batch(&migration.up_sql)?: its next statement.
ApplyStatement(fault) ==
    /\ applying # None
    /\ applying[1].step < Len(InFlight.up_sql)
    /\ \E r \in {ConnExecute(Conn, Parse(InFlight.up_sql[applying[1].step + 1]), fault)} :
          IF r.ok
          THEN /\ SetConn(r.c)
               /\ applying' = Some([applying[1] EXCEPT !.step = @ + 1])
               /\ UNCHANGED result
          ELSE ApplyFailed(r.c, "sql")
    /\ UNCHANGED <<migrations, tx, edits>>
    /\ UNCHANGED <<cli, pc, task, refs, closed, stdout, stderr, exit_code, ret, answers, h0,
                   holders, calls,
                   table_data, log_buffer, logged>>

\* transaction.execute("INSERT INTO schema_migrations ..")?
ApplyRecord(fault) ==
    /\ applying # None
    /\ applying[1].step = Len(InFlight.up_sql)
    /\ \E r \in {DatabaseTransaction_execute(Conn,
                    [op |-> "insert_migration", version |-> InFlight.version,
                     description |-> InFlight.description,
                     checksum |-> calculate_checksum(InFlight), entry |-> InFlight],
                    fault)} :
          IF r.ok
          THEN /\ SetConn(r.c)
               /\ applying' = Some([applying[1] EXCEPT !.step = @ + 1])
               /\ UNCHANGED result
          ELSE ApplyFailed(r.c, "record")
    /\ UNCHANGED <<migrations, tx, edits>>
    /\ UNCHANGED <<cli, pc, task, refs, closed, stdout, stderr, exit_code, ret, answers, h0,
                   holders, calls,
                   table_data, log_buffer, logged>>

\* transaction.commit()?: the COMMIT statement of DatabaseTransaction::commit.
ApplyCommit(fault) ==
    /\ applying # None
    /\ applying[1].step = Len(InFlight.up_sql) + 1
    /\ \E r \in {ConnCommit(Conn, fault)} :
          IF r.ok
          THEN /\ SetConn(r.c)
               /\ applying' = Some([applying[1] EXCEPT !.step = @ + 1])
               /\ UNCHANGED result
          ELSE ApplyFailed(r.c, "commit")
    /\ UNCHANGED <<migrations, tx, edits>>
    /\ UNCHANGED <<cli, pc, task, refs, closed, stdout, stderr, exit_code, ret, answers, h0,
                   holders, calls,
                   table_data, log_buffer, logged>>

\* DatabaseTransaction::commit after COMMIT: committed = true, the handle
\* is dropped, apply_migration returns Ok(()).
ApplyReturn ==
    /\ applying # None
    /\ applying[1].step = Len(InFlight.up_sql) + 2
    /\ SetConn(DatabaseTransaction_drop(Conn, TRUE))
    /\ applying' = None
    /\ result' = Outcome("apply_migration", TRUE, applying[1].version, "", <<>>,
                         applying[1].begin)
    /\ UNCHANGED <<migrations, tx, edits>>
    /\ UNCHANGED <<cli, pc, task, refs, closed, stdout, stderr, exit_code, ret, answers, h0,
                   holders, calls,
                   table_data, log_buffer, logged>>

\* The process ends inside apply_migration: no handler is installed while
\* database::initialize() runs, and process::exit runs no destructor, so
\* neither COMMIT nor ROLLBACK is issued.  On reopening, the store is what
\* SQLite had committed.
Kill ==
    /\ applying # None
    /\ store' = committed
    /\ in_tx' = FALSE
    /\ applying' = None
    /\ result' = Outcome("killed", TRUE, applying[1].version, "", <<applying[1].step>>,
                         applying[1].begin)
    /\ UNCHANGED <<migrations, committed, tx, edits>>
    /\ UNCHANGED <<cli, pc, task, refs, closed, stdout, stderr, exit_code, ret, answers, h0,
                   holders, calls,
                   table_data, log_buffer, logged>>

NextCrash ==
    \/ \E f \in BOOLEAN : ApplyBegin(f)
    \/ \E f \in BOOLEAN : ApplyStatement(f)
    \/ \E f \in BOOLEAN : ApplyRecord(f)
    \/ \E f \in BOOLEAN : ApplyCommit(f)
    \/ ApplyReturn
    \/ Kill
    \/ applying = None /\ \E v \in Versions : RollbackMigration(v, 0)
    \/ applying = None /\ \E n \in ProjectNames, p \in ProjectPaths : DbCreateProject(n, p)

SpecCrash == Init /\ [][NextCrash]_vars

(******************* the connection, its mutex and handles ******************)
\* connection.rs at the level of the mutex: a call is the list of the steps
\* it has left, and a thread takes them one at a time.  "lock" is
\* self.connection.lock(), "unlock" the end of the guard's scope, the other
\* steps are what the call does with the connection in between.

\* The statement the callers of this section run.
HandleStatement == [op |-> "insert_project", name |-> "a", path |-> "p"]

\* Database::execute, DatabaseStatement::execute, DatabaseTransaction::execute
\* and a caller's own get_connection().lock(): the guard, one statement.
execute_program == <<"lock", "run", "unlock">>

\* Database::prepare: the guard, conn.prepare(sql); the handle is built
\* from a clone of the Arc.
prepare_program == <<"lock", "prepare", "unlock">>

\* DatabaseTransaction::new: the guard lives in the inner block.
new_program == <<"lock", "begin", "unlock">>

\* Mutant of commit: the guard outlives the handle.
commit_program_guardOutlives == <<"lock", "commit", "drop", "unlock">>

\* DatabaseTransaction::commit(mut self): `conn` is a local, `self` the
\* parameter; on either way out the local goes first, then self is dropped.
commit_program == <<"lock", "commit", "unlock", "drop">>

\* DatabaseTransaction::rollback(mut self)
rollback_program == <<"lock", "rollback", "unlock", "drop">>

\* impl Drop for DatabaseTransaction, when not committed:
\* if let Ok(conn) = self.connection.lock() { let _ = ROLLBACK }
drop_program == <<"lock", "drop_rollback", "unlock">>

\* get_current_version: two blocks, each with its own guard.
get_current_version_program == <<"lock", "exists", "unlock", "lock", "max", "unlock">>

\* The calls made on the Database itself (&self).
DatabaseOps == {"execute", "prepare", "transaction", "get_current_version"}

\* The calls made through a handle obtained earlier.
HandleOps == {"stmt_execute", "tx_execute", "commit", "rollback", "drop", "conn_execute"}

Program(op) ==
    CASE op \in {"execute", "stmt_execute", "tx_execute", "conn_execute"} -> execute_program
      [] op = "prepare" -> prepare_program
      [] op = "transaction" -> new_program
      [] op = "commit" -> commit_program
      [] op = "rollback" -> rollback_program
      [] op = "drop" -> <<"drop">>
      [] op = "get_current_version" -> get_current_version_program

\* The mutex is free when no thread has a guard.
MutexFree == \A u \in Threads : ~calls[u].guard

\* The calls each thread makes: main all of them, the task those on the
\* Database and on a shared reference.
ThreadOps(t) ==
    IF t = "main" THEN DatabaseOps \cup HandleOps
    ELSE {"execute", "get_current_version", "conn_execute"}

\* A thread starts a call: on the Database while it has not been consumed
\* by close, or through a handle a caller holds.  commit, rollback and drop
\* consume the transaction handle.
Call(t, op) ==
    /\ calls[t].op = "none"
    /\ op \in DatabaseOps => ~closed
    /\ op = "stmt_execute" => "statement" \in holders
    /\ op = "conn_execute" => "connection" \in holders
    /\ op \in {"tx_execute", "commit", "rollback", "drop"} => tx # <<>>
    /\ op = "transaction" => Len(tx) < MaxHandles - 1
    /\ calls' = [calls EXCEPT ![t] =
                    [Idle EXCEPT !.op = op, !.left = Program(op),
                                 !.committed = op \notin {"commit", "rollback", "drop"},
                                 !.closed = closed]]
    /\ tx' = IF op \in {"commit", "rollback", "drop"} THEN SubSeq(tx, 1, Len(tx) - 1) ELSE tx
    /\ UNCHANGED <<migrations, store, committed, in_tx, result, edits>>
    /\ UNCHANGED <<cli, pc, task, refs, closed, stdout, stderr, exit_code, ret, answers, h0,
                   applying, holders,
                   table_data, log_buffer, logged>>

\* What one step does to the connection and to the call.
Instr_do(c, call, fault) ==
    LET i == Head(call.left)
        rest == [call EXCEPT !.left = Tail(@), !.done = Append(@, i)]
    IN CASE i = "lock" -> [c |-> c, call |-> [rest EXCEPT !.guard = TRUE]]
         [] i = "unlock" -> [c |-> c, call |-> [rest EXCEPT !.guard = FALSE]]
         [] i = "run" ->
               LET r == ConnExecute(c, HandleStatement, fault)
               IN [c |-> r.c, call |-> [rest EXCEPT !.ok = r.ok]]
         [] i = "prepare" ->
               [c |-> c, call |-> [rest EXCEPT !.ok = ~fault /\ "projects" \in c.store.tables]]
         [] i = "begin" ->
               LET r == ConnBegin(c, fault)
               IN [c |-> r.c, call |-> [rest EXCEPT !.ok = r.ok]]
         [] i = "commit" ->
               LET r == ConnCommit(c, fault)
               IN [c |-> r.c, call |-> [rest EXCEPT !.ok = r.ok, !.committed = r.ok]]
         [] i = "rollback" ->
               LET r == ConnRollback(c)
               IN [c |-> r.c, call |-> [rest EXCEPT !.ok = r.ok, !.committed = r.ok]]
         [] i = "drop" ->
               [c |-> c,
                call |-> IF call.committed THEN rest
                         ELSE [rest EXCEPT !.left = drop_program \o @]]
         [] i = "drop_rollback" -> [c |-> ConnRollback(c).c, call |-> rest]
         [] i = "exists" ->
               [c |-> c,
                call |-> IF "schema_migrations" \in c.store.tables THEN rest
                         ELSE [rest EXCEPT !.left = <<"unlock">>]]
         [] i = "max" ->
               [c |-> c, call |-> [rest EXCEPT !.version = get_current_version(c.store)]]

\* A thread takes the next step of its call.  lock() returns only when no
\* guard is out: std::sync::Mutex is not reentrant.
Instr(t, fault) ==
    /\ calls[t].left # <<>>
    /\ Head(calls[t].left) = "lock" => MutexFree
    /\ \E r \in {Instr_do(Conn, calls[t], fault)} :
          /\ SetConn(r.c)
          /\ calls' = [calls EXCEPT ![t] = r.call]
    /\ UNCHANGED <<migrations, tx, result, edits>>
    /\ UNCHANGED <<cli, pc, task, refs, closed, stdout, stderr, exit_code, ret, answers, h0,
                   applying, holders,
                   table_data, log_buffer, logged>>

\* The call returns: prepare and transaction hand out a handle when they
\* succeeded.  The outcome notes the steps taken and whether the call began
\* after close.
Return(t) ==
    /\ calls[t].op # "none"
    /\ calls[t].left = <<>>
    /\ result' = Outcome(calls[t].op, calls[t].ok, calls[t].version,
                         IF calls[t].closed THEN "after close" ELSE "",
                         calls[t].done, store)
    /\ holders' = IF calls[t].op = "prepare" /\ calls[t].ok
                  THEN holders \cup {"statement"} ELSE holders
    /\ tx' = IF calls[t].op = "transaction" /\ calls[t].ok
             THEN Append(tx, [begin |-> store]) ELSE tx
    /\ calls' = [calls EXCEPT ![t] = Idle]
    /\ UNCHANGED <<migrations, store, committed, in_tx, edits>>
    /\ UNCHANGED <<cli, pc, task, refs, closed, stdout, stderr, exit_code, ret, answers, h0,
                   applying,
                   table_data, log_buffer, logged>>

\* Database::get_connection: a clone of the Arc.
GetConnection ==
    /\ ~closed
    /\ "connection" \notin holders
    /\ holders' = holders \cup {"connection"}
    /\ result' = Outcome("get_connection", TRUE, 0, "", <<>>, store)
    /\ UNCHANGED <<migrations, store, committed, in_tx, tx, edits>>
    /\ UNCHANGED <<cli, pc, task, refs, closed, stdout, stderr, exit_code, ret, answers, h0,
                   applying, calls,
                   table_data, log_buffer, logged>>

\* Database::close(self): drop(self.connection), the Database's own Arc.
\* The Database is owned, so no call borrows it.  The Connection lives on
\* while a statement, a transaction or a shared reference holds a clone.
Close ==
    /\ ~closed
    /\ \A u \in Threads : calls[u].op \notin DatabaseOps
    /\ closed' = TRUE
    /\ result' = Outcome("close", TRUE, 0, "", <<>>, store)
    /\ UNCHANGED <<migrations, store, committed, in_tx, tx, edits>>
    /\ UNCHANGED <<cli, pc, task, refs, stdout, stderr, exit_code, ret, answers, h0,
                   applying, holders, calls,
                   table_data, log_buffer, logged>>

\* A caller lets go of a statement or of a shared reference.
DropHandle(h) ==
    /\ h \in holders
    /\ h = "statement" => \A u \in Threads : calls[u].op # "stmt_execute"
    /\ h = "connection" => \A u \in Threads : calls[u].op # "conn_execute"
    /\ holders' = holders \ {h}
    /\ result' = Outcome("drop_handle", TRUE, 0, h, <<>>, store)
    /\ UNCHANGED <<migrations, store, committed, in_tx, tx, edits>>
    /\ UNCHANGED <<cli, pc, task, refs, closed, stdout, stderr, exit_code, ret, answers, h0,
                   applying, calls,
                   table_data, log_buffer, logged>>

NextHandles ==
    \/ \E t \in Threads : \E op \in ThreadOps(t) : Call(t, op)
    \/ \E t \in Threads, f \in BOOLEAN : Instr(t, f)
    \/ \E t \in Threads : Return(t)
    \/ GetConnection
    \/ Close
    \/ \E h \in {"statement", "connection"} : DropHandle(h)
    \/ /\ ~closed
       /\ \A u \in Threads : calls[u].op = "none"
       /\ tx = <<>>
       /\ RunMigrations(NoFault)

SpecHandles == Init /\ [][NextHandles]_vars

(****************************** input **************************************)
\* Mutant of the input selection: only --non-interactive counts.
input_mode_flag_only(json, non_interactive) ==
    IF non_interactive THEN "NonInteractive" ELSE "Interactive"

\* async_main: let input_mode = if cli.json || cli.non_interactive {..}
input_mode(json, non_interactive) ==
    IF json \/ non_interactive THEN "NonInteractive" ELSE "Interactive"

\* async_main / main: let output_mode = if cli.json {..}
output_mode(json) == IF json THEN "Json" ELSE "Interactive"

\* A prompt of the inquire library, the k-th of this run: without a
\* terminal it fails at once, with one it waits for what is typed.
inquire_prompt(x, k) ==
    IF ~x.tty THEN [st |-> "err", err |-> anyhow(<<"Input device is not a TTY">>)]
    ELSE IF k <= Len(x.answers) THEN [st |-> "ok", v |-> x.answers[k]]
    ELSE [st |-> "blocked"]

\* NonInteractiveInput::blocked(kind, prompt)
blocked(kind, prompt) ==
    anyhow(<<"Interactive ", kind, " '", prompt,
             "' blocked: non-interactive mode is enabled. ",
             "Please provide the required input via command-line arguments instead.">>)

\* Input::prompt_text / select / confirm of the selected implementation
Input_ask(x, kind, prompt, k) ==
    IF x.input_mode = "NonInteractive"
    THEN [st |-> "err", err |-> blocked(kind, prompt)]
    ELSE inquire_prompt(x, k)

(************************* command handlers ********************************)
\* What a handler has come to: it returned Ok or Err, it panicked, or it
\* waits at a prompt; with the connection and the output it produced.
Done(c, out) == [st |-> "ok", err |-> None, c |-> c, out |-> out, ask |-> ""]
Fail(e, c, out) == [st |-> "err", err |-> Some(e), c |-> c, out |-> out, ask |-> ""]
Panicked(c, out) == [st |-> "panic", err |-> None, c |-> c, out |-> out, ask |-> ""]
Waiting(c, out, kind) == [st |-> "blocked", err |-> None, c |-> c, out |-> out, ask |-> kind]

\* transform_name: lower case, blanks and hyphens to underscores
transform_name(name) ==
    CASE name = "A" -> "a"
      [] name = "B" -> "b"
      [] OTHER -> name

\* cwd.join(name)
JoinPath(dir, name) ==
    CASE name = "a" -> "p/a"
      [] name = "b" -> "p/b"
      [] OTHER -> dir

Cwd == "p"

\* db_get_templates: SELECT * FROM templates; `row` is the row of the
\* table, if it has one.
db_get_templates(s, row) ==
    IF "templates" \notin s.tables THEN [ok |-> FALSE, rows |-> <<>>]
    ELSE [ok |-> TRUE, rows |-> IF row = None THEN <<>> ELSE <<"o3de">>]

\* Mutant of the copy: a template directory is copied as a tree.
fs_copy_tree(from) == from = "dir"

\* std::fs::copy(&template_path, project_path): it copies one regular file
\* onto a file; project_path is the directory create_dir_all has just made,
\* so opening it for writing fails whatever the source is.
fs_copy(from) == FALSE

\* db_get_all_projects: the rows of projects, in rowid order
db_get_all_projects(s) ==
    IF "projects" \notin s.tables THEN [ok |-> FALSE, rows |-> <<>>]
    ELSE [ok |-> TRUE,
          rows |-> [i \in 1..Cardinality(s.projects) |->
                       CHOOSE p \in s.projects :
                          Cardinality({q \in s.projects : q.id < p.id}) = i - 1]]

\* db_get_project_by_path: the row of that path, if any
db_get_project_by_path(s, path) ==
    LET rows == {p \in s.projects : p.path = path}
    IN IF "projects" \notin s.tables THEN [ok |-> FALSE, project |-> None]
       ELSE IF rows = {} THEN [ok |-> TRUE, project |-> None]
       ELSE [ok |-> TRUE,
             project |-> Some(CHOOSE p \in rows : \A q \in rows : p.id <= q.id)]

\* register_project: info!("Registering project ..") and db_create_project
register_project(x, c, out, name, path) ==
    LET r == db_create_project(c, [name |-> name, path |-> path])
    IN [ok |-> r.ok, c |-> r.c,
        out |-> out \o Logger_log("info", <<"Registering project ", name, "...">>, x.verbose)]

\* Mutant of the confirmation: whatever is answered counts as a yes.
ForgetRegistered_anyAnswer(x, c, out, p, k, prompt, hint) ==
    LET out1 == out \o Logger_log("warn",
                    <<"A project with the name ", p.name,
                      " is already registered at path ", p.path>>, x.verbose)
        a == Input_ask(x, "confirmation", prompt, k)
    IN CASE a.st = "blocked" -> [go |-> FALSE, h |-> Waiting(c, out1, "confirmation")]
         [] a.st = "err" -> [go |-> FALSE, h |-> Fail(a.err, c, out1)]
         [] a.st = "ok" ->
              LET out2 == out1 \o Logger_log("info", <<"Unregistering previous project...">>,
                                             x.verbose)
                  f == db_forget_project(c, p.id)
              IN IF f.ok THEN [go |-> TRUE, h |-> Done(f.c, out2)]
                 ELSE [go |-> FALSE,
                       h |-> Fail(anyhow(<<"Failed to execute prepared statement">>), f.c, out2)]
         [] OTHER ->
              [go |-> FALSE,
               h |-> Fail(with_suggestion(project_already_exists(p.name), hint), c, out1)]

\* A name that is taken, in init and in register: the warning, the
\* confirmation (the k-th prompt) and db_forget_project.  `go` says the
\* handler goes on, with connection c and output out.
ForgetRegistered(x, c, out, p, k, prompt, hint) ==
    LET out1 == out \o Logger_log("warn",
                    <<"A project with the name ", p.name,
                      " is already registered at path ", p.path>>, x.verbose)
        a == Input_ask(x, "confirmation", prompt, k)
    IN CASE a.st = "blocked" -> [go |-> FALSE, h |-> Waiting(c, out1, "confirmation")]
         [] a.st = "err" -> [go |-> FALSE, h |-> Fail(a.err, c, out1)]
         [] a.st = "ok" /\ a.v = "y" ->
              LET out2 == out1 \o Logger_log("info", <<"Unregistering previous project...">>,
                                             x.verbose)
                  f == db_forget_project(c, p.id)
              IN IF f.ok THEN [go |-> TRUE, h |-> Done(f.c, out2)]
                 ELSE [go |-> FALSE,
                       h |-> Fail(anyhow(<<"Failed to execute prepared statement">>), f.c, out2)]
         [] OTHER ->
              [go |-> FALSE,
               h |-> Fail(with_suggestion(project_already_exists(p.name), hint), c, out1)]

\* handle_init_project_command, from the directory check on (k prompts
\* were asked before)
InitDirectory(x, c, out, k, name, given, template) ==
    LET out1 == out \o Output_progress(x.output_mode,
                          <<"Initializing project ", name, " using template ", template,
                            "...">>,
                          x.verbose)
        path == JoinPath(Cwd, name)
        create ==
            IF template # "default"
            THEN IF x.template_row = None
                 THEN Fail(anyhow(<<"Could not find template with name ", template>>), c, out1)
                 ELSE IF x.template_row[1] = "missing"
                 THEN Fail(with_context(
                              CliError_new(ERR_VALIDATION_FIELD,
                                           <<"Template directory does not exist">>,
                                           "The registered template path is invalid or has been moved"),
                              "template path"), c, out1)
                 ELSE IF ~fs_copy(x.template_row[1])
                 THEN Fail(CliError_new(ERR_TEMPLATE_COPY_FAILED,
                                        <<"Failed to copy template from ", "template path">>,
                                        "Underlying OS error"), c, out1)
                 ELSE Done(c, out1 \o Output_success(x.output_mode,
                              <<"Project ", given, " created successfully">>, x.verbose))
            ELSE IF x.cmd.no_register
            THEN Done(c, out1 \o Output_success(x.output_mode,
                          <<"Project ", given, " created successfully">>, x.verbose))
            ELSE LET r == register_project(x, c, out1, name, path)
                 IN IF ~r.ok
                    THEN Fail(anyhow(<<"Failed to execute prepared statement">>), r.c, r.out)
                    ELSE Done(r.c, r.out \o Output_success(x.output_mode,
                                 <<"Project ", given, " created successfully">>, x.verbose))
    IN IF ~x.dir_nonempty THEN create
       ELSE LET out2 == out1 \o Logger_log("warn",
                           <<"The project path ", path, " already exists and is not empty">>,
                           x.verbose)
                a == Input_ask(x, "confirmation",
                               "Do you want to overwrite the directory? All existing content will be deleted!",
                               k + 1)
            IN CASE a.st = "blocked" -> Waiting(c, out2, "confirmation")
                 [] a.st = "err" -> Fail(a.err, c, out2)
                 [] a.st = "ok" /\ a.v = "y" ->
                      [create EXCEPT !.out = out2 \o SubSeq(@, Len(out1) + 1, Len(@))]
                 [] OTHER ->
                      Fail(with_context(
                              CliError_new(ERR_PROJECT_ALREADY_EXISTS,
                                           <<"Cannot create project">>,
                                           "The project directory already exists and is not empty"),
                              path), c, out2)

\* handle_init_project_command(name, template, no_register, ..)
handle_init_project_command(x, c, out, k, given, template) ==
    LET name == transform_name(given)
        found == db_get_project_by_name(c.store, name)
    IN IF ~x.cmd.no_register /\ found.ok
       THEN LET f == ForgetRegistered(x, c, out, found.project[1], k + 1,
                        "Do you want to forget that project and create this new one?",
                        "Use the --no-register flag to create without registering, or choose a different name")
            IN IF f.go THEN InitDirectory(x, f.h.c, f.h.out, k + 1, name, given, template)
               ELSE f.h
       ELSE InitDirectory(x, c, out, k, name, given, template)

\* project::handler, ProjectCommands::Init: the template is checked, a
\* missing name and a missing template are asked for.
handle_init(x) ==
    LET c == x.c
        templates == db_get_templates(c.store, x.template_row)
    IN IF ~x.db THEN Panicked(c, <<>>)
       ELSE IF ~templates.ok THEN Fail(anyhow(<<"no such table: templates">>), c, <<>>)
       ELSE IF x.cmd.template # None
               /\ x.cmd.template[1] \notin {"default"} \cup {templates.rows[i] : i \in DOMAIN templates.rows}
       THEN Fail(with_suggestion(
                    CliError_new(ERR_VALIDATION_FIELD, <<"Invalid project template">>,
                                 "The specified template does not exist"),
                    "Use 'am template list' to see available templates"), c, <<>>)
       ELSE LET a1 == IF x.cmd.name = None
                      THEN Input_ask(x, "prompt", "Project Name", 1)
                      ELSE [st |-> "ok", v |-> x.cmd.name[1]]
                k1 == IF x.cmd.name = None THEN 1 ELSE 0
            IN CASE a1.st = "blocked" -> Waiting(c, <<>>, "prompt")
                 [] a1.st = "err" -> Fail(a1.err, c, <<>>)
                 [] OTHER ->
                      LET a2 == IF x.cmd.template = None
                                THEN Input_ask(x, "selection", "Project Template", k1 + 1)
                                ELSE [st |-> "ok", v |-> x.cmd.template[1]]
                          k2 == IF x.cmd.template = None THEN k1 + 1 ELSE k1
                      IN CASE a2.st = "blocked" -> Waiting(c, <<>>, "selection")
                           [] a2.st = "err" -> Fail(a2.err, c, <<>>)
                           [] OTHER -> handle_init_project_command(x, c, <<>>, k2, a1.v, a2.v)

\* handle_register_project_command(path, ..)
handle_register_project_command(x) ==
    LET c == x.c
        path == x.cmd.path
        out1 == Output_progress(x.output_mode, <<"Registering project '", path, "'...">>,
                                x.verbose)
        finish(c2, out2, name) ==
            LET r == register_project(x, c2, out2, name, path)
            IN IF ~r.ok THEN Fail(anyhow(<<"Failed to execute prepared statement">>), r.c, r.out)
               ELSE Done(r.c, r.out \o Output_success(x.output_mode,
                            <<"Project ", name, " registered successfully">>, x.verbose))
    IN IF x.amproject = None THEN Fail(project_not_initialized(path), c, out1)
       ELSE IF ~x.db THEN Panicked(c, out1)
       ELSE LET name == x.amproject[1]
                found == db_get_project_by_name(c.store, name)
            IN IF found.ok
               THEN LET f == ForgetRegistered(x, c, out1, found.project[1], 1,
                                "Do you want to forget that project and register this one?",
                                "Unregister the existing project first, or use a different name")
                    IN IF f.go THEN finish(f.h.c, f.h.out, name) ELSE f.h
               ELSE finish(c, out1, name)

\* handle_unregister_project_command(name, ..)
handle_unregister_project_command(x) ==
    LET c == x.c
        name == x.cmd.name
        found == db_get_project_by_name(c.store, name)
        bye(c2, out2) ==
            Done(c2, out2 \o Output_success(x.output_mode,
                        <<"Project ", name, " unregistered successfully">>, x.verbose))
    IN IF ~x.db THEN Panicked(c, <<>>)
       ELSE IF found.ok
       THEN LET out1 == Output_progress(x.output_mode, <<"Unregistering project...">>, x.verbose)
                f == db_forget_project(c, found.project[1].id)
            IN IF ~f.ok THEN Fail(anyhow(<<"Failed to execute prepared statement">>), f.c, out1)
               ELSE bye(f.c, out1)
       ELSE bye(c, <<>>)

\* handle_list_projects_command
handle_list_projects_command(x) ==
    LET c == x.c
        projects == db_get_all_projects(c.store)
    IN IF ~x.db THEN Panicked(c, <<>>)
       ELSE IF ~projects.ok THEN Fail(anyhow(<<"no such table: projects">>), c, <<>>)
       ELSE IF projects.rows = <<>>
       THEN Done(c, Output_table(x.output_mode, "Registered Projects", <<>>, x.verbose)
                    \o Output_progress(x.output_mode, <<"No projects registered.">>, x.verbose)
                    \o Output_progress(x.output_mode, <<"">>, x.verbose)
                    \o Output_progress(x.output_mode, <<"To get started:">>, x.verbose)
                    \o Output_progress(x.output_mode,
                          <<"  Create a new project: am project init <name>">>, x.verbose)
                    \o Output_progress(x.output_mode,
                          <<"  Register an existing project: am project register <path>">>,
                          x.verbose))
       ELSE Done(c, Output_table(x.output_mode, "Registered Projects", projects.rows, x.verbose))

\* display_project_info_interactive: the lines of a project without assets
display_project_info_interactive(x, name, path, registered) ==
    Output_progress(x.output_mode, <<"Project: ", name>>, x.verbose)
    \o Output_progress(x.output_mode, <<"---">>, x.verbose)
    \o Output_progress(x.output_mode, <<"">>, x.verbose)
    \o Output_progress(x.output_mode, <<"Details:">>, x.verbose)
    \o Output_progress(x.output_mode, <<"  Root Path:      ", path>>, x.verbose)
    \o Output_progress(x.output_mode,
          <<"  Registered:     ", IF registered THEN "Yes" ELSE "No">>, x.verbose)
    \o Output_progress(x.output_mode, <<"">>, x.verbose)
    \o Output_progress(x.output_mode, <<"Paths:">>, x.verbose)
    \o Output_progress(x.output_mode, <<"  Sources:        ", path, "/sources">>, x.verbose)
    \o Output_progress(x.output_mode, <<"  Data:           ", path, "/data">>, x.verbose)
    \o Output_progress(x.output_mode, <<"  Build:          ", path, "/build">>, x.verbose)

\* display_project_info: one success payload in JSON mode, the lines
\* otherwise
display_project_info(x, name, path, registered) ==
    IF x.output_mode = "Json"
    THEN Output_success(x.output_mode, <<"info ", name, path,
                                         IF registered THEN "registered" ELSE "notice">>,
                        x.verbose)
    ELSE display_project_info_interactive(x, name, path, registered)

\* handle_info_by_name
handle_info_by_name(x) ==
    LET c == x.c
        name == x.cmd.name[1]
        found == db_get_project_by_name(c.store, name)
    IN IF ~x.db THEN Panicked(c, <<>>)
       ELSE IF ~found.ok
       THEN Fail(anyhow(<<"Could not find project with name ", name>>), c, <<>>)
       ELSE IF found.project = None
       THEN Fail(with_suggestion(
                    CliError_new(ERR_PROJECT_NOT_REGISTERED,
                                 <<"Project '", name, "' not found">>,
                                 "The project is not registered in the database"),
                    "Use 'am project list' to see registered projects"), c, <<>>)
       ELSE Done(c, display_project_info(x, found.project[1].name, found.project[1].path, TRUE))

\* handle_info_current_dir
handle_info_current_dir(x) ==
    LET c == x.c
        found == db_get_project_by_path(c.store, Cwd)
    IN IF x.amproject = None
       THEN Fail(with_suggestion(
                    CliError_new(ERR_PROJECT_NOT_INITIALIZED,
                                 <<"No project found in current directory">>,
                                 "The current directory does not contain a .amproject file"),
                    "Create a new project with 'am project init <name>' or provide a project name"),
                 c, <<>>)
       ELSE IF ~x.db THEN Panicked(c, <<>>)
       ELSE IF ~found.ok THEN Fail(anyhow(<<"no such table: projects">>), c, <<>>)
       ELSE IF found.project # None
       THEN Done(c, display_project_info(x, x.amproject[1], Cwd, TRUE))
       ELSE IF x.output_mode = "Json"
       THEN Done(c, display_project_info(x, x.amproject[1], Cwd, FALSE))
       ELSE LET out1 == display_project_info_interactive(x, x.amproject[1], Cwd, FALSE)
                        \o Output_progress(x.output_mode, <<"">>, x.verbose)
                        \o Output_progress(x.output_mode,
                              <<"This project is not registered in the database.">>, x.verbose)
                a == Input_ask(x, "confirmation", "Would you like to register it now?", 1)
            IN CASE a.st = "blocked" -> Waiting(c, out1, "confirmation")
                 [] a.st = "ok" /\ a.v = "y" ->
                      LET r == db_create_project(c, [name |-> x.amproject[1], path |-> Cwd])
                      IN IF ~r.ok
                         THEN Fail(anyhow(<<"Failed to execute prepared statement">>), r.c, out1)
                         ELSE Done(r.c, out1 \o Output_success(x.output_mode,
                                      <<"Project registered successfully!">>, x.verbose))
                 [] OTHER ->
                      Done(c, out1 \o Output_progress(x.output_mode,
                                 <<"  Run am project register to register this project">>,
                                 x.verbose))

\* sudo::reset_database(skip_confirmation, ..): the confirmation is asked
\* of the inquire library itself; the database file is removed and a fresh
\* one is initialized (Database::new and run_migrations).
reset_database(x) ==
    LET c == x.c
        out1 == Output_progress(x.output_mode, <<"This operation will:">>, x.verbose)
                \o Output_progress(x.output_mode,
                      <<"  Delete ALL projects from the database">>, x.verbose)
                \o Output_progress(x.output_mode,
                      <<"  Clear ALL configuration settings">>, x.verbose)
                \o Output_progress(x.output_mode,
                      <<"  Reset the database to its initial state">>, x.verbose)
                \o Output_progress(x.output_mode, <<"">>, x.verbose)
                \o Output_progress(x.output_mode, <<"This action cannot be undone!">>, x.verbose)
                \o Output_progress(x.output_mode, <<"">>, x.verbose)
        a == IF x.cmd.yes THEN [st |-> "ok", v |-> "y"] ELSE inquire_prompt(x, 1)
        fresh == run_migrations([store |-> EmptyStore, committed |-> EmptyStore,
                                 in_tx |-> FALSE], x.migrations, NoFault)
        out2 == out1 \o Output_progress(x.output_mode, <<"Resetting database...">>, x.verbose)
                \o Output_progress(x.output_mode, <<"Database file deleted">>, x.verbose)
                \o Output_progress(x.output_mode, <<"Creating fresh database...">>, x.verbose)
    IN CASE a.st = "blocked" -> Waiting(c, out1, "confirmation")
         [] a.st = "err" -> Fail(a.err, c, out1)
         [] a.st = "ok" /\ a.v # "y" ->
              Done(c, out1 \o Output_success(x.output_mode, <<"Database reset cancelled.">>,
                                             x.verbose))
         [] OTHER ->
              IF ~fresh.ok
              THEN Fail(anyhow(<<"Failed to apply migration">>), fresh.c, out2)
              ELSE Done(fresh.c, out2 \o Output_success(x.output_mode,
                           <<"Database has been reset successfully">>, x.verbose))

\* run_command: the handler of the command
run_command(x) ==
    CASE x.cmd.cmd = "init" -> handle_init(x)
      [] x.cmd.cmd = "register" -> handle_register_project_command(x)
      [] x.cmd.cmd = "unregister" -> handle_unregister_project_command(x)
      [] x.cmd.cmd = "list" -> handle_list_projects_command(x)
      [] x.cmd.cmd = "info" ->
            IF x.cmd.name # None THEN handle_info_by_name(x) ELSE handle_info_current_dir(x)
      [] x.cmd.cmd = "reset" -> reset_database(x)

(***************************** the process *********************************)
\* Arc::try_unwrap(arc) by one holder: Ok when it is the only holder; the
\* holder's reference is gone either way (the Err value is dropped).
Arc_try_unwrap(r, holder) == [ok |-> r = {holder}, refs |-> r \ {holder}]

\* Mutant of the clean-up on exit: the connection is closed whoever else
\* holds it.
cleanup_on_exit_always(r, isClosed, holder) ==
    IF holder \notin r THEN [refs |-> r, closed |-> isClosed, ok |-> FALSE]
    ELSE [refs |-> r \ {holder}, closed |-> TRUE, ok |-> TRUE]

\* if let Some(db) = database { if let Ok(db) = Arc::try_unwrap(db) {
\* database::cleanup(Some(db)) } }, of the main path and of the shutdown
\* task
cleanup_on_exit(r, isClosed, holder) ==
    IF holder \notin r THEN [refs |-> r, closed |-> isClosed, ok |-> FALSE]
    ELSE LET u == Arc_try_unwrap(r, holder)
         IN [refs |-> u.refs, closed |-> isClosed \/ u.ok, ok |-> u.ok]

\* Mutant of the shutdown task: it waits until it is the only holder.
shutdown_task_waits(r, isClosed, hasDb, verbose) ==
    IF hasDb /\ r # {"task"}
    THEN [refs |-> r, closed |-> isClosed, out |-> <<>>, task |-> "signalled"]
    ELSE LET u == cleanup_on_exit(r, isClosed, "task")
         IN [refs |-> u.refs, closed |-> u.closed, out |-> <<>>, task |-> "unwrapped"]

\* The shutdown task after ctrl_c: the debug line, the clean-up or the
\* warning; what is left is std::process::exit(0).
shutdown_task(r, isClosed, hasDb, verbose) ==
    LET u == cleanup_on_exit(r, isClosed, "task")
    IN [refs |-> u.refs, closed |-> u.closed,
        out |-> Logger_log("debug", <<"Received shutdown signal, cleaning up...">>, verbose)
                \o (IF hasDb /\ ~u.ok
                    THEN Logger_log("warn",
                            <<"Database connections still active, forcing shutdown">>, verbose)
                    ELSE <<>>),
        task |-> "unwrapped"]

\* Mutant of main: a panic is reported through the interactive renderer
\* whatever the flags.
main_report_panic_interactive(json, r, verbose) ==
    LET mode == output_mode(json)
        e == r.err[1]
    IN CASE r.st = "ok" -> [exit_code |-> SUCCESS, out |-> <<>>, err |-> <<>>]
         [] r.st = "err" ->
              [exit_code |-> determine_exit_code(e),
               out |-> Output_error(mode, e, IF e.is_cli THEN e.code ELSE -1, verbose),
               err |-> IF mode = "Interactive" THEN <<"Error log written to: ">> ELSE <<>>]
         [] OTHER ->
              [exit_code |-> SYSTEM_ERROR,
               out |-> Output_error("Interactive", anyhow(<<"Internal panic: ">>), -1, verbose),
               err |-> <<"A crash log has been written to: ">>]

\* Mutant of main: in JSON mode every error is a user error.
main_report_json1(json, r, verbose) ==
    LET mode == output_mode(json)
        e == r.err[1]
    IN CASE r.st = "ok" -> [exit_code |-> SUCCESS, out |-> <<>>, err |-> <<>>]
         [] r.st = "err" ->
              [exit_code |-> IF json THEN USER_ERROR ELSE determine_exit_code(e),
               out |-> Output_error(mode, e, IF e.is_cli THEN e.code ELSE -1, verbose),
               err |-> IF mode = "Interactive" THEN <<"Error log written to: ">> ELSE <<>>]
         [] OTHER ->
              [exit_code |-> SYSTEM_ERROR,
               out |-> Output_error(mode, anyhow(<<"Internal panic: ">>), -1, verbose),
               err |-> IF mode = "Interactive"
                       THEN <<"A crash log has been written to: ">> ELSE <<>>]

\* main: the match on what async_main came to: the exit code, and what is
\* written on the way.
main_report(json, r, verbose) ==
    LET mode == output_mode(json)
        e == r.err[1]
    IN CASE r.st = "ok" -> [exit_code |-> SUCCESS, out |-> <<>>, err |-> <<>>]
         [] r.st = "err" ->
              [exit_code |-> determine_exit_code(e),
               out |-> Output_error(mode, e, IF e.is_cli THEN e.code ELSE -1, verbose),
               err |-> IF mode = "Interactive" THEN <<"Error log written to: ">> ELSE <<>>]
         [] OTHER ->
              [exit_code |-> SYSTEM_ERROR,
               out |-> Output_error(mode, anyhow(<<"Internal panic: ">>), -1, verbose),
               err |-> IF mode = "Interactive"
                       THEN <<"A crash log has been written to: ">> ELSE <<>>]

\* The panic hooks, outermost first: setup_crash_db_cleanup (eprintln!, a
\* try_unwrap of a fresh clone, which never succeeds), setup_crash_logging
\* (error!, the crash log, eprintln!), the default hook.
panic_hooks(verbose) ==
    [out |-> Logger_log("error", <<"PANIC: ">>, verbose),
     err |-> <<"Application panicked: ", "Crash log written to: ", "thread panicked at">>]

\* The command lines and environments of a run.
Commands ==
    {[cmd |-> "init", name |-> n, template |-> t, no_register |-> b] :
        n \in {None, Some("B")}, t \in {None, Some("default"), Some("o3de")}, b \in BOOLEAN}
    \cup {[cmd |-> "register", path |-> p] : p \in ProjectPaths}
    \cup {[cmd |-> "unregister", name |-> n, delete_files |-> FALSE] : n \in ProjectNames}
    \cup {[cmd |-> "list"]}
    \cup {[cmd |-> "info", name |-> n] : n \in {None} \cup {Some(m) : m \in ProjectNames}}
    \cup {[cmd |-> "reset", yes |-> b] : b \in BOOLEAN}

\* What a run looks at besides the store: the name in the .amproject file
\* of the directory it is pointed at (None: no such file), whether the
\* directory of a new project holds files, whether a terminal is attached,
\* whether the database file can be opened, and the row of the templates
\* table (None: the table is empty; no operation of the tool inserts one,
\* so a row was put there from outside) with what its path points at.
TemplatePaths == {"missing", "dir"}

Environments(json, non_interactive, cmd) ==
    [amproject : IF cmd.cmd = "register" \/ (cmd.cmd = "info" /\ cmd.name = None)
                 THEN {None} \cup {Some(m) : m \in ProjectNames} ELSE {None},
     dir_nonempty : IF cmd.cmd = "init" THEN BOOLEAN ELSE {FALSE},
     tty : IF cmd.cmd = "reset" \/ ~(json \/ non_interactive) THEN BOOLEAN ELSE {FALSE},
     db : BOOLEAN,
     template_row : IF cmd.cmd = "init" /\ cmd.template = Some("o3de")
                    THEN {None} \cup {Some(k) : k \in TemplatePaths} ELSE {None}]

\* What is typed at a prompt.
Typed(kind) ==
    CASE kind = "prompt" -> {"B"}
      [] kind = "selection" -> {"default"}
      [] OTHER -> {"y", "n"}

\* What the handler is called with.
Ctx ==
    [cmd |-> cli.cmd, output_mode |-> cli.output_mode, input_mode |-> cli.input_mode,
     verbose |-> cli.verbose, tty |-> cli.tty, amproject |-> cli.amproject,
     dir_nonempty |-> cli.dir_nonempty, db |-> cli.db, answers |-> answers,
     template_row |-> cli.template_row,
     c |-> h0.c, migrations |-> migrations]

\* The tool is started: async_main up to the call of run_command.
\* database::initialize opens the file and runs the migrations; the panic
\* hook and the shutdown task each get a clone of the Arc.
Exec(json, non_interactive, cmd, e) ==
    /\ pc = "idle"
    /\ tx = <<>> /\ ~in_tx
    /\ \E r \in {run_migrations(Conn, migrations, NoFault)} :
       LET db == e.db /\ r.ok
           c == IF e.db THEN r.c ELSE Conn
           out == IF db
                  THEN Logger_log("debug", <<"Successfully initialized database">>, FALSE)
                  ELSE Logger_log("error", <<"Failed to initialize database: ">>, FALSE)
                       \o Logger_log("error",
                             <<"  The application will continue but some features may not work properly.">>,
                             FALSE)
       IN /\ SetConn(c)
          /\ result' = IF e.db
                       THEN Outcome("run_migrations", r.ok, r.failed, r.stage, r.applied, r.before)
                       ELSE result
          /\ cli' = [json |-> json, non_interactive |-> non_interactive, verbose |-> FALSE,
                     cmd |-> cmd, amproject |-> e.amproject, dir_nonempty |-> e.dir_nonempty,
                     tty |-> e.tty, db |-> db, template_row |-> e.template_row,
                     output_mode |-> output_mode(json),
                     input_mode |-> input_mode(json, non_interactive)]
          /\ refs' = IF db THEN {"main", "hook", "task"} ELSE {}
          /\ stdout' = out
          /\ h0' = [c |-> c, stdout |-> out]
    /\ pc' = "run"
    /\ task' = "waiting"
    /\ closed' = FALSE
    /\ stderr' = <<>>
    /\ exit_code' = None
    /\ ret' = None
    /\ answers' = <<>>
    /\ UNCHANGED <<migrations, tx, edits, applying, holders, calls,
                   table_data, log_buffer, logged>>

\* run_command(..).await: the handler runs to its end or to its next
\* prompt.  It holds a clone of the Arc while it runs; a panic unwinds
\* through async_main, whose own reference goes without a clean-up.
RunCommand ==
    /\ pc = "run"
    /\ \E h \in {run_command(Ctx)}, hooks \in {panic_hooks(cli.verbose)} :
          /\ h.c.store.sqlite_sequence <= MaxId
          /\ SetConn(h.c)
          /\ stdout' = h0.stdout \o h.out \o (IF h.st = "panic" THEN hooks.out ELSE <<>>)
          /\ stderr' = IF h.st = "panic" THEN stderr \o hooks.err ELSE stderr
          /\ pc' = CASE h.st = "blocked" -> "prompt"
                     [] h.st = "panic" -> "report"
                     [] OTHER -> "cleanup"
          /\ ret' = IF h.st = "blocked" THEN ret ELSE Some([st |-> h.st, err |-> h.err])
          /\ refs' = CASE h.st = "blocked" -> IF cli.db THEN refs \cup {"handler"} ELSE refs
                       [] h.st = "panic" -> refs \ {"handler", "main"}
                       [] OTHER -> refs \ {"handler"}
    /\ UNCHANGED <<migrations, tx, result, edits, applying, holders, calls, cli, task, closed, exit_code, answers, h0,
                   table_data, log_buffer, logged>>

\* Something is typed at the prompt the handler waits at.
TerminalInput(a) ==
    /\ pc = "prompt"
    /\ a \in Typed(run_command(Ctx).ask)
    /\ answers' = Append(answers, a)
    /\ pc' = "run"
    /\ UNCHANGED dbVars
    /\ UNCHANGED <<applying, holders, calls, cli, task, refs, closed, stdout, stderr, exit_code, ret, h0,
                   table_data, log_buffer, logged>>

\* async_main after run_command: "Clean up database on normal exit"
MainCleanup ==
    /\ pc = "cleanup"
    /\ LET u == cleanup_on_exit(refs, closed, "main")
       IN /\ refs' = u.refs
          /\ closed' = u.closed
    /\ pc' = "report"
    /\ UNCHANGED dbVars
    /\ UNCHANGED <<applying, holders, calls, cli, task, stdout, stderr, exit_code, ret, answers, h0,
                   table_data, log_buffer, logged>>

\* main: the exit code from the result, the error through the renderer,
\* std::process::exit
MainReport ==
    /\ pc = "report"
    /\ LET m == main_report(cli.json, ret[1], cli.verbose)
       IN /\ stdout' = stdout \o m.out
          /\ stderr' = stderr \o m.err
          /\ exit_code' = Some(m.exit_code)
    /\ pc' = "exited"
    /\ UNCHANGED dbVars
    /\ UNCHANGED <<applying, holders, calls, cli, task, refs, closed, ret, answers, h0,
                   table_data, log_buffer, logged>>

\* The interrupt signal arrives: signal::ctrl_c().await returns.
Signal ==
    /\ pc \notin {"idle", "exited"}
    /\ task = "waiting"
    /\ task' = "signalled"
    /\ UNCHANGED dbVars
    /\ UNCHANGED <<applying, holders, calls, cli, pc, refs, closed, stdout, stderr, exit_code, ret, answers, h0,
                   table_data, log_buffer, logged>>

\* The shutdown task up to its exit call.
TaskShutdown ==
    /\ pc \notin {"idle", "exited"}
    /\ task = "signalled"
    /\ LET t == shutdown_task(refs, closed, cli.db, cli.verbose)
       IN /\ refs' = t.refs
          /\ closed' = t.closed
          /\ stdout' = stdout \o t.out
          /\ h0' = [h0 EXCEPT !.stdout = @ \o t.out]
          /\ task' = t.task
    /\ UNCHANGED dbVars
    /\ UNCHANGED <<applying, holders, calls, cli, pc, stderr, exit_code, ret, answers,
                   table_data, log_buffer, logged>>

\* The shutdown task: std::process::exit(0)
TaskExit ==
    /\ pc \notin {"idle", "exited"}
    /\ task = "unwrapped"
    /\ task' = "done"
    /\ pc' = "exited"
    /\ exit_code' = Some(0)
    /\ UNCHANGED dbVars
    /\ UNCHANGED <<applying, holders, calls, cli, refs, closed, stdout, stderr, ret, answers, h0,
                   table_data, log_buffer, logged>>

\* The process is gone; what stays is the database file.
Reap ==
    /\ pc = "exited"
    /\ pc' = "idle"
    /\ task' = "none"
    /\ refs' = {}
    /\ closed' = FALSE
    /\ stdout' = <<>>
    /\ stderr' = <<>>
    /\ exit_code' = None
    /\ ret' = None
    /\ answers' = <<>>
    /\ cli' = [json |-> FALSE, non_interactive |-> FALSE, verbose |-> FALSE,
               cmd |-> [cmd |-> "none"], amproject |-> None, dir_nonempty |-> FALSE,
               tty |-> FALSE, db |-> FALSE, template_row |-> None,
               output_mode |-> "Interactive", input_mode |-> "Interactive"]
    /\ h0' = [c |-> Conn, stdout |-> <<>>]
    /\ result' = Outcome("new", TRUE, 0, "", <<>>, EmptyStore)
    /\ UNCHANGED <<migrations, store, committed, in_tx, tx, edits, applying, holders, calls,
                   table_data, log_buffer, logged>>

Step(commands) ==
    \/ /\ pc = "idle"
       /\ \E json \in BOOLEAN, non_interactive \in BOOLEAN, cmd \in commands :
             \E e \in Environments(json, non_interactive, cmd) :
                Exec(json, non_interactive, cmd, e)
    \/ RunCommand
    \/ \E a \in {"y", "n", "B", "default"} : TerminalInput(a)
    \/ MainCleanup
    \/ MainReport
    \/ Signal
    \/ TaskShutdown
    \/ TaskExit
    \/ Reap

NextCli == Step(Commands)

\* Runs of the tool, one after the other, on the same database file.
SpecCli == Init /\ [][NextCli]_vars

\* The commands of the runs that are interrupted: what the shutdown task
\* does depends on the command only through who holds the connection when
\* the signal comes (a handler at a prompt, a handler that returned,
\* nobody when there is no database).
InterruptCommands == {cmd \in Commands : cmd.cmd \in {"register", "list", "reset"}}

NextInterrupt == Step(InterruptCommands)

\* Interrupted runs, with the shutdown task scheduled: the runtime's worker
\* threads run it whatever the main path does.
SpecCliFair ==
    Init /\ [][NextInterrupt]_vars /\ WF_vars(TaskShutdown) /\ WF_vars(TaskExit)

\* The errors main can be handed: every constructor of the taxonomy on
\* codes at and around the borders of the ranges, and an error that is no
\* CliError.
ErrorCodes ==
    {-32000, -31999, -31003, -31002, -31001, -31000, -30999, -30003, -30002, -30001,
     -30000, -29999, -29004, -29003, -29002, -29001, -29000, -28999, -28002, -28001,
     -28000, -27999, -1, 0, 1}

Errors ==
    LET plain == {CliError_new(code, <<"What failed">>, "Why it failed") : code \in ErrorCodes}
        ctx == plain \cup {with_context(e, "some/path") : e \in plain}
    IN ctx \cup {with_suggestion(e, "Do this instead") : e \in ctx}
       \cup {anyhow(<<"Root cause">>)}

\* main is handed an error, in either output mode.
InitErrors ==
    /\ migrations = ShippedMigrations
    /\ store = EmptyStore
    /\ committed = EmptyStore
    /\ in_tx = FALSE
    /\ tx = <<>>
    /\ result = Outcome("new", TRUE, 0, "", <<>>, EmptyStore)
    /\ edits = 0
    /\ \E json \in BOOLEAN :
          cli = [json |-> json, non_interactive |-> FALSE, verbose |-> FALSE,
                 cmd |-> [cmd |-> "none"], amproject |-> None, dir_nonempty |-> FALSE,
                 tty |-> FALSE, db |-> FALSE, template_row |-> None,
                 output_mode |-> output_mode(json), input_mode |-> input_mode(json, FALSE)]
    /\ pc = "report"
    /\ task = "waiting"
    /\ refs = {}
    /\ closed = FALSE
    /\ stdout = <<>>
    /\ stderr = <<>>
    /\ exit_code = None
    /\ \E e \in Errors : ret = Some([st |-> "err", err |-> Some(e)])
    /\ answers = <<>>
    /\ h0 = [c |-> [store |-> EmptyStore, committed |-> EmptyStore, in_tx |-> FALSE],
             stdout |-> <<>>]
    /\ applying = None
    /\ holders = {}
    /\ calls = [t \in Threads |-> Idle]
    /\ table_data = JsonNull
    /\ log_buffer = None
    /\ logged = 0

\* CliError::type_name(&self) on the error main was handed
TypeName ==
    /\ pc = "report"
    /\ ret[1].err[1].is_cli
    /\ result' = Outcome("type_name", TRUE, ret[1].err[1].code,
                         error_type_name(ret[1].err[1].code), <<>>, EmptyStore)
    /\ UNCHANGED cliVars
    /\ UNCHANGED <<migrations, store, committed, in_tx, tx, edits>>

NextErrors ==
    \/ MainReport
    \/ TypeName

SpecErrors == InitErrors /\ [][NextErrors]_vars

(************************ InteractiveOutput::table **************************)
\* JSON values: a string is known by its length in bytes, a number by the
\* length of its rendering; an object is a function on its keys; an array a
\* sequence.
\* serde_json's Map keeps its keys sorted.
KeyOrder == <<"id", "name">>

KeyLen(k) == IF k = "id" THEN 2 ELSE 4

\* The values table is given: null, and the arrays of up to MaxRows rows,
\* a row being a number or an object over some of the keys, a cell a
\* string, null or a number.
JsonInputs ==
    LET cells == {[t |-> "string", len |-> n] : n \in {0, MaxCell}}
                 \cup {JsonNull, [t |-> "number", len |-> 1]}
        rows == UNION {{[t |-> "object", o |-> f] : f \in [K -> cells]} :
                          K \in SUBSET {KeyOrder[i] : i \in DOMAIN KeyOrder}}
                \cup {[t |-> "number", len |-> 1]}
    IN {JsonNull}
       \cup UNION {{[t |-> "array", a |-> a] : a \in [1..n -> rows]} : n \in 0..MaxRows}

\* usize arithmetic.  UsizeModulus is usize::MAX + 1 on the narrowest
\* target Rust has (16 bits), the integers of TLC ending below 2^64; the
\* lengths here are far from it on every target.  With overflow checks (a
\* debug build) an operation that leaves the range panics, without them (a
\* release build) it wraps.
UsizeModulus == 65536

usize(v) == [v |-> v % UsizeModulus, wrapped |-> v >= UsizeModulus]

usize_sub(a, b) ==
    IF a < b THEN [v |-> a - b + UsizeModulus, wrapped |-> TRUE]
    ELSE [v |-> a - b, wrapped |-> FALSE]

\* The cell of a row under a header: a string as it is, "-" for null and
\* for a missing key, anything else rendered.
CellLen(obj, h) ==
    IF h \notin DOMAIN obj THEN 1
    ELSE CASE obj[h].t = "string" -> obj[h].len
           [] obj[h].t = "null" -> 1
           [] OTHER -> obj[h].len

Max2(a, b) == IF a >= b THEN a ELSE b

RECURSIVE SumSeq(_)
SumSeq(w) == IF w = <<>> THEN 0 ELSE Head(w) + SumSeq(Tail(w))

RECURSIVE ColumnWidth(_, _, _)
ColumnWidth(w, h, objs) ==
    IF objs = <<>> THEN w
    ELSE ColumnWidth(Max2(w, CellLen(Head(objs).o, h)), h, Tail(objs))

\* InteractiveOutput::table(title, data): the title, then nothing for a
\* value that is no array, an empty array, or a first row that is no
\* object; else the widths, total_width, and the lines.  The outcome is
\* whether it panicked, whether an operation on usize wrapped, the number
\* of columns, total_width and the number of lines logged.
InteractiveOutput_table(title, data, overflow_checks) ==
    LET titled == IF title = None THEN 0 ELSE 1
        quiet == [panicked |-> FALSE, wrapped |-> FALSE, columns |-> 0, total_width |-> 0,
                  lines |-> titled, drawn |-> FALSE]
    IN IF data.t # "array" THEN quiet
       ELSE IF data.a = <<>> THEN quiet
       ELSE IF data.a[1].t # "object" THEN quiet
       ELSE LET first_row == data.a[1].o
                headers == SelectSeq(KeyOrder, LAMBDA k : k \in DOMAIN first_row)
                row_data == SelectSeq(data.a, LAMBDA r : r.t = "object")
                widths == [i \in DOMAIN headers |->
                              ColumnWidth(KeyLen(headers[i]), headers[i], row_data)]
                gaps == usize_sub(Len(widths), 1)
                twice == usize(gaps.v * 2)
                sum == usize(SumSeq(widths) + twice.v)
                total == usize(sum.v + 2)
                wrapped == gaps.wrapped \/ twice.wrapped \/ sum.wrapped \/ total.wrapped
            IN IF wrapped /\ overflow_checks
               THEN [panicked |-> TRUE, wrapped |-> TRUE, columns |-> Len(headers),
                     total_width |-> 0, lines |-> titled, drawn |-> FALSE]
               ELSE [panicked |-> FALSE, wrapped |-> wrapped, columns |-> Len(headers),
                     total_width |-> total.v, lines |-> titled + 3 + Len(row_data) + 1,
                     drawn |-> TRUE]

\* table is about to be called with some JSON value.
InitTable ==
    /\ migrations = ShippedMigrations
    /\ store = EmptyStore
    /\ committed = EmptyStore
    /\ in_tx = FALSE
    /\ tx = <<>>
    /\ result = Outcome("new", TRUE, 0, "", <<>>, EmptyStore)
    /\ edits = 0
    /\ cli = [json |-> FALSE, non_interactive |-> FALSE, verbose |-> FALSE,
              cmd |-> [cmd |-> "none"], amproject |-> None, dir_nonempty |-> FALSE,
              tty |-> FALSE, db |-> FALSE, template_row |-> None,
              output_mode |-> "Interactive", input_mode |-> "Interactive"]
    /\ pc = "idle"
    /\ task = "none"
    /\ refs = {}
    /\ closed = FALSE
    /\ stdout = <<>>
    /\ stderr = <<>>
    /\ exit_code = None
    /\ ret = None
    /\ answers = <<>>
    /\ h0 = [c |-> [store |-> EmptyStore, committed |-> EmptyStore, in_tx |-> FALSE],
             stdout |-> <<>>]
    /\ applying = None
    /\ holders = {}
    /\ calls = [t \in Threads |-> Idle]
    /\ table_data \in JsonInputs
    /\ log_buffer = None
    /\ logged = 0

\* The call of table, in a build with or without overflow checks.
Table(title, overflow_checks) ==
    /\ result.op = "new"
    /\ \E r \in {InteractiveOutput_table(title, table_data, overflow_checks)} :
          result' = Outcome("table", ~r.panicked, r.total_width,
                            IF r.panicked THEN "panicked"
                            ELSE IF r.wrapped THEN "wrapped"
                            ELSE IF r.drawn THEN "drawn" ELSE "",
                            <<r.columns, r.lines>>, EmptyStore)
    /\ UNCHANGED <<migrations, store, committed, in_tx, tx, edits, table_data>>
    /\ UNCHANGED <<cli, pc, task, refs, closed, stdout, stderr, exit_code, ret, answers, h0,
                   applying, holders, calls, log_buffer, logged>>

NextTable ==
    \E title \in {None, Some("Registered Projects")}, overflow_checks \in BOOLEAN :
        Table(title, overflow_checks)

SpecTable == InitTable /\ [][NextTable]_vars

(**************************** the crash log ********************************)
\* logger.rs, const MAX_LOG_BUFFER_SIZE
MAX_LOG_BUFFER_SIZE == 1000

\* Mutant of add_to_buffer: nothing is evicted.
add_to_buffer_keepAll(buffer_opt, entry) ==
    Some((IF buffer_opt = None THEN <<>> ELSE buffer_opt[1]) \o <<entry>>)

\* Logger::add_to_buffer(entry) on the value LOG_BUFFER holds: the buffer is
\* made on the first call; a full one loses its front; the entry goes to
\* the back.
add_to_buffer(buffer_opt, entry) ==
    LET buffer == IF buffer_opt = None THEN <<>> ELSE buffer_opt[1]
        kept == IF Len(buffer) >= MAX_LOG_BUFFER_SIZE THEN Tail(buffer) ELSE buffer
    IN Some(kept \o <<entry>>)

\* A call of add_to_buffer, from Logger::log or Logger::log_success, under
\* the mutex of LOG_BUFFER; an entry is named by its place in the arrivals.
AddToBuffer ==
    /\ logged < MaxLogs
    /\ logged' = logged + 1
    /\ log_buffer' = add_to_buffer(log_buffer, logged + 1)
    /\ UNCHANGED dbVars
    /\ UNCHANGED <<cli, pc, task, refs, closed, stdout, stderr, exit_code, ret, answers, h0,
                   applying, holders, calls, table_data>>

NextLogger == AddToBuffer

SpecLogger == Init /\ [][NextLogger]_vars

(***************************** properties **********************************)
\* What the queries of the tests read.
RecordedVersions(s) == {r.version : r \in s.schema_migrations}
SelectVersions(s) == SortedSeq(RecordedVersions(s))

\* The tables the forward statements of m create.
CreatedTables(m) ==
    {Parse(m.up_sql[i]).name :
        i \in {j \in DOMAIN m.up_sql : Parse(m.up_sql[j]).op = "create_table"}}

\* C1: when a forward statement of a migration or the insertion of its
\* record fails during run_migrations, the store is afterwards as it was
\* when that migration started: no table the migration would have created
\* exists, no record for its version exists, and no transaction is left open.
C1_MigrationAtomic ==
    (result.op = "run_migrations" /\ ~result.ok /\ result.stage \in {"sql", "record"}) =>
        LET m == migrations[result.version]
        IN /\ store = result.before
           /\ committed = result.before
           /\ ~in_tx
           /\ \A t \in CreatedTables(m) \ result.before.tables : t \notin store.tables
           /\ m.version \notin RecordedVersions(store)

\* C1 witness: the INSERT of the record failed after the forward statements
\* had created a table inside the transaction.
C1_Witness ==
    /\ result.op = "run_migrations" /\ ~result.ok /\ result.stage = "record"
    /\ CreatedTables(migrations[result.version]) \ result.before.tables # {}

\* C2: when a handle obtained from transaction() goes out of scope without
\* commit, the store is again what it was when the transaction began, and
\* the connection is outside a transaction.
C2_RollbackOnDrop ==
    [][(result'.op = "drop" /\ tx # <<>>) =>
          /\ store' = tx[Len(tx)].begin
          /\ committed' = tx[Len(tx)].begin
          /\ ~in_tx']_vars

\* C2 witness: a drop undid a change of the projects rows.
C2_Witness ==
    /\ result.op = "drop"
    /\ result.before.projects # store.projects

\* C3: a run_migrations right after a successful run_migrations succeeds,
\* applies nothing and leaves the store, the schema version and the number
\* of migration records as they were.
C3_RunIdempotent ==
    [][(result.op = "run_migrations" /\ result.ok /\ result'.op = "run_migrations") =>
          /\ result'.ok
          /\ result'.applied = <<>>
          /\ store' = store
          /\ committed' = committed
          /\ get_current_version(store') = get_current_version(store)
          /\ Cardinality(store'.schema_migrations) = Cardinality(store.schema_migrations)]_vars

\* C3 witness: a successful run on a migrated store that applied nothing.
C3_Witness ==
    /\ result.op = "run_migrations" /\ result.ok /\ result.applied = <<>>
    /\ get_current_version(store) = MaxOf(DOMAIN migrations)
    /\ get_current_version(store) > 0

\* C4: when run_migrations fails while applying version v, the error
\* names v, which is the lowest version still pending; nothing at or above v
\* is recorded and no table of a later migration was created; the versions
\* applied earlier in the run are below v and their records are committed.
C4_AbortAtFailure ==
    (result.op = "run_migrations" /\ ~result.ok) =>
        LET v == result.version
            pending == {k \in DOMAIN migrations : k > get_current_version(committed)}
        IN /\ v \in pending
           /\ \A k \in pending : v <= k
           /\ \A r \in store.schema_migrations : r.version < v
           /\ \A k \in DOMAIN migrations : k > v =>
                 \A t \in CreatedTables(migrations[k]) \ result.before.tables :
                    t \notin store.tables
           /\ \A i \in DOMAIN result.applied :
                 /\ result.applied[i] < v
                 /\ result.applied[i] \in RecordedVersions(committed)

\* C4 witness: a run that applied some migrations, then failed at a version
\* that is not the last.
C4_Witness ==
    /\ result.op = "run_migrations" /\ ~result.ok
    /\ result.applied # <<>>
    /\ result.version < MaxOf(DOMAIN migrations)

\* A record whose catalog entry is still the one it was applied from.
Unchanged(r) ==
    /\ r.version \in DOMAIN migrations
    /\ migrations[r.version] = r.entry

\* C5: verify_migrations succeeds when every applied migration came from
\* the current catalog, and returns an error when the version, description,
\* forward statements or backward statements of an applied entry were
\* changed after it was applied.
C5_ChecksumIntegrity ==
    verify_migrations(store, migrations).ok <=>
        \A r \in store.schema_migrations : Unchanged(r)

\* C5 on the stores that have the tracking table (it fails on a store that
\* has none, where the SELECT of verify_migrations fails): there
\* verify_migrations succeeds exactly when no applied entry was changed.
C5_WithTrackingTable ==
    "schema_migrations" \in store.tables => C5_ChecksumIntegrity

\* C6: a successful run_migrations of the shipped catalog on a store at
\* version 0 leaves exactly 4 records, versions 1, 2, 3, 4 in ascending
\* order, each with a non-empty checksum.
C6_FreshRunRecords ==
    (/\ result.op = "run_migrations" /\ result.ok
     /\ migrations = ShippedMigrations
     /\ result.applied # <<>> /\ result.applied[1] = 1) =>
        /\ SelectVersions(store) = <<1, 2, 3, 4>>
        /\ Cardinality(store.schema_migrations) = 4
        /\ \A r \in store.schema_migrations : r.checksum # <<>>

\* C6 witness: the run that took the store from version 0 to version 4.
C6_Witness ==
    /\ result.op = "run_migrations" /\ result.ok
    /\ result.applied = <<1, 2, 3, 4>>

\* C7: the schema version is 0 at the start; no step other than a
\* rollback_migration lowers it; a run_migrations raises it by one for each
\* migration it applied.
C7_VersionMonotone ==
    /\ get_current_version(store) = 0
    /\ [][result'.op # "rollback_migration" =>
            /\ get_current_version(store') >= get_current_version(store)
            /\ result'.op = "run_migrations" =>
                  get_current_version(store') =
                     get_current_version(store) + Len(result'.applied)]_vars

\* C7 witness: a failed run that had applied two migrations before.
C7_Witness ==
    /\ result.op = "run_migrations" /\ ~result.ok
    /\ Len(result.applied) = 2
    /\ get_current_version(store) = 3

\* C8: at most one transaction handle is alive; transaction() called while
\* a transaction is open fails and leaves the store, the uncommitted writes,
\* the open transaction and its handle as they were.
C8_SingleTransaction ==
    /\ [](Len(tx) <= 1)
    /\ [][(result'.op = "transaction" /\ in_tx) =>
            /\ ~result'.ok
            /\ store' = store
            /\ committed' = committed
            /\ in_tx'
            /\ tx' = tx]_vars

\* C8 witness: transaction() failed while a transaction with uncommitted
\* writes was open, and the writes are still there.
C8_Witness ==
    /\ result.op = "transaction" /\ ~result.ok
    /\ in_tx /\ Len(tx) = 1
    /\ store # committed

\* The store after the backward statements of version v and the DELETE of
\* its record.
RECURSIVE AfterStatements(_, _)
AfterStatements(s, sqls) ==
    IF sqls = <<>> THEN s
    ELSE AfterStatements(SqlExec(s, Parse(Head(sqls))).store, Tail(sqls))

AfterRollback(s, v) ==
    LET d == AfterStatements(s, migrations[v].down_sql[1])
    IN [d EXCEPT !.schema_migrations = {r \in @ : r.version # v}]

\* C9: rollback_migration(v) of an applied migration that defines backward
\* statements either succeeds, and then the backward statements have run and
\* the record of v is gone, or fails, and then the store is as before the
\* call.
C9_RollbackAllOrNothing ==
    (/\ result.op = "rollback_migration"
     /\ result.version \in DOMAIN migrations
     /\ migrations[result.version].down_sql # None
     /\ result.version \in RecordedVersions(result.before)) =>
        IF result.ok
        THEN /\ store = AfterRollback(result.before, result.version)
             /\ committed = store
             /\ result.version \notin RecordedVersions(store)
        ELSE /\ store = result.before
             /\ in_tx = (tx # <<>>)

\* C9 witness: a rollback failed at the DELETE of the record, after its
\* backward statements had run, and the record is still there.
C9_Witness ==
    /\ result.op = "rollback_migration" /\ ~result.ok /\ result.stage = "record"
    /\ result.version \in RecordedVersions(store)

\* C10: rollback_migration(v) returns an error and leaves the store as it
\* was when v is not in the catalog or its entry has no backward statements.
C10_RollbackFailsClosed ==
    (/\ result.op = "rollback_migration"
     /\ \/ result.version \notin DOMAIN migrations
        \/ migrations[result.version].down_sql = None) =>
        /\ ~result.ok
        /\ store = result.before
        /\ committed = result.before

\* C10 witness: the rollback of an applied migration whose entry has no
\* backward statements was refused.
C10_Witness ==
    /\ result.op = "rollback_migration" /\ ~result.ok
    /\ result.version \in DOMAIN migrations
    /\ migrations[result.version].down_sql = None
    /\ result.version \in RecordedVersions(store)

\* C13: no two registered projects ever share a name; db_create_project of
\* a name that is registered (whatever the path) fails and leaves the
\* registry as it was; db_create_project of a name that is not registered,
\* the name just forgotten included, succeeds and registers it (the projects
\* table being there).
C13_UniqueNames ==
    /\ [](\A p, q \in store.projects : p.name = q.name => p = q)
    /\ [][result'.op = "db_create_project" =>
            LET name == result'.applied[1]
                path == result'.applied[2]
            IN IF \E p \in store.projects : p.name = name
               THEN ~result'.ok /\ store' = store /\ committed' = committed
               ELSE "projects" \in store.tables =>
                       /\ result'.ok
                       /\ \E p \in store'.projects :
                             /\ p.name = name /\ p.path = path
                             /\ store'.projects = store.projects \cup {p}]_vars

C13_Witness ==
    /\ result.op = "db_create_project"
    /\ result.ok
    /\ result.stage = "forgotten"
    /\ \E p \in store.projects : p.name = result.applied[1]

C13_WitnessDuplicate ==
    /\ result.op = "db_create_project"
    /\ ~result.ok
    /\ \E p \in store.projects : p.name = result.applied[1] /\ p.path # result.applied[2]

C11_WitnessSdk ==
    /\ pc = "exited" /\ ret # None /\ ret[1].st = "err"
    /\ ret[1].err[1].is_cli /\ ret[1].err[1].code = -28999
    /\ exit_code = Some(2)

C11_WitnessUser ==
    /\ pc = "exited" /\ ret # None /\ ret[1].st = "err"
    /\ ret[1].err[1].is_cli /\ ret[1].err[1].code = -29000
    /\ exit_code = Some(1)

\* C16: for a CliError e rendered by the JSON renderer the error object of
\* the envelope has code = e.code, type = the type name of e.code,
\* message = e.what, why = e.why, suggestion = e.suggestion and
\* context = e.context, the context key being left out when e has none.
C16_JsonErrorObject ==
    (pc = "exited" /\ cli.json /\ ret # None /\ ret[1].st = "err" /\ ret[1].err[1].is_cli) =>
        LET e == ret[1].err[1]
            o == stdout[Len(stdout)].body.error
        IN /\ o.code = e.code
           /\ o.type = error_type_name(e.code)
           /\ o.message = e.what
           /\ "why" \in DOMAIN o /\ o.why = e.why
           /\ o.suggestion = e.suggestion
           /\ IF e.context = None THEN "context" \notin DOMAIN o
              ELSE "context" \in DOMAIN o /\ o.context = e.context[1]

\* What the envelope of a CliError does hold: the code, the type name but
\* for ERR_TEMPLATE_COPY_FAILED, the Display text as message, the
\* suggestion of the range, and no other key.
C16_ErrorObjectAsBuilt ==
    (pc = "exited" /\ cli.json /\ ret # None /\ ret[1].st = "err" /\ ret[1].err[1].is_cli) =>
        LET e == ret[1].err[1]
            o == stdout[Len(stdout)].body.error
        IN /\ DOMAIN o = {"code", "type", "message", "suggestion"}
           /\ o.code = e.code
           /\ e.code # ERR_TEMPLATE_COPY_FAILED => o.type = error_type_name(e.code)
           /\ o.message = to_string(e)
           /\ o.suggestion = suggestion_from_code(e.code)

\* C17: the input source is the non-interactive one exactly when --json or
\* --non-interactive is given; --json alone selects it.
C17_InputSelection ==
    pc # "idle" =>
        /\ cli.input_mode = "NonInteractive" <=> (cli.json \/ cli.non_interactive)
        /\ (cli.json /\ ~cli.non_interactive) => cli.input_mode = "NonInteractive"

\* --json alone, and a prompt of the handler was refused.
C17_Witness ==
    /\ cli.json /\ ~cli.non_interactive
    /\ cli.input_mode = "NonInteractive"
    /\ ret # None /\ ret[1].st = "err" /\ ~ret[1].err[1].is_cli
    /\ ret[1].err[1].message[1] = "Interactive "

\* C12: for every error a command returns the exit status main computes is
\* the same in interactive and in JSON output mode: main gives the status
\* it would give in the other mode, the command run in the other output
\* mode (on the same non-interactive input) comes to the same result, and
\* registering a directory without .amproject exits with 1 in both.
C12_ExitCodeParity ==
    (pc = "exited" /\ task # "done" /\ ret # None) =>
        /\ exit_code = Some(main_report(~cli.json, ret[1], cli.verbose).exit_code)
        /\ cli.input_mode = "NonInteractive" =>
              LET o == run_command([Ctx EXCEPT !.output_mode = output_mode(~cli.json)])
              IN o.st = ret[1].st /\ o.err = ret[1].err
        /\ (cli.cmd.cmd = "register" /\ cli.amproject = None) => exit_code = Some(1)

C12_Witness ==
    /\ pc = "exited" /\ task # "done"
    /\ cli.json /\ cli.cmd.cmd = "register" /\ cli.amproject = None
    /\ ret # None /\ ret[1].st = "err" /\ ret[1].err[1].is_cli
    /\ exit_code = Some(1)

C12_WitnessInteractive ==
    /\ pc = "exited" /\ task # "done"
    /\ ~cli.json /\ cli.non_interactive /\ cli.cmd.cmd = "register" /\ cli.amproject = None
    /\ exit_code = Some(1)

C12_WitnessSystem ==
    /\ pc = "exited" /\ task # "done"
    /\ cli.json /\ ret # None /\ ret[1].st = "err" /\ ~ret[1].err[1].is_cli
    /\ exit_code = Some(2)

\* The envelopes on standard output.
Envelopes == SelectSeq(stdout, LAMBDA item : item.kind = "envelope")

\* C14: a command run in JSON mode that returns normally writes exactly one
\* envelope to standard output: a success envelope when it succeeds (exit
\* status 0), an error envelope when it fails; 'project list' included.
C14_OneEnvelope ==
    (pc = "exited" /\ task # "done" /\ cli.json /\ ret # None /\ ret[1].st # "panic") =>
        /\ Len(Envelopes) = 1
        /\ Envelopes[1].body.ok <=> exit_code = Some(0)
        /\ Envelopes[1].body.ok <=> ret[1].st = "ok"

\* The same, of every command but 'project list'.
C14_OneEnvelopeButList ==
    (pc = "exited" /\ task # "done" /\ cli.json /\ ret # None /\ ret[1].st # "panic"
        /\ cli.cmd.cmd # "list") =>
        /\ Len(Envelopes) = 1
        /\ Envelopes[1].body.ok <=> exit_code = Some(0)
        /\ Envelopes[1].body.ok <=> ret[1].st = "ok"

\* 'project list' in JSON mode succeeds without an envelope.
C14_ListWritesNone ==
    (pc = "exited" /\ task # "done" /\ cli.json /\ ret # None /\ ret[1].st = "ok"
        /\ cli.cmd.cmd = "list") =>
        Len(Envelopes) = 0 /\ exit_code = Some(0)

\* C15: during a command run in JSON mode nothing but result envelopes is
\* written to standard output and nothing at all to standard error.
C15_OnlyEnvelopes ==
    (pc # "idle" /\ cli.json) =>
        /\ \A i \in 1..Len(stdout) : stdout[i].kind = "envelope"
        /\ stderr = <<>>

\* Standard error alone: in JSON mode it stays empty unless the command
\* panics (the panic hooks write to it).
C15_StderrButPanic ==
    (pc # "idle" /\ cli.json /\ ~(ret # None /\ ret[1].st = "panic")) => stderr = <<>>

\* 'project register' in JSON mode: the logger's line before the envelope.
C15_RegisterLogsLine ==
    /\ pc = "exited" /\ cli.json /\ cli.cmd.cmd = "register" /\ exit_code = Some(0)
    /\ Len(stdout) = 2
    /\ stdout[1].kind = "log" /\ stdout[1].text[1] = "Registering project "
    /\ stdout[2].kind = "envelope"

\* C18: in JSON mode no command ever waits for terminal input; a command
\* needing a value it was not given ends with an error instead.
C18_NeverWaits ==
    (pc # "idle" /\ cli.json) => pc # "prompt"

\* The prompts asked through the Input of the run (the project name, the
\* template, the confirmations of init, register and info) never wait in
\* JSON mode.
C18_InputPromptsFailFast ==
    (pc # "idle" /\ cli.json /\ cli.cmd.cmd # "reset") => pc # "prompt"

\* 'sudo database reset' without --yes in JSON mode, a terminal attached:
\* the process waits at the confirmation.
C18_ResetWaits ==
    /\ pc = "prompt" /\ cli.json /\ cli.tty
    /\ cli.cmd.cmd = "reset" /\ ~cli.cmd.yes

\* C19: of the main path and the shutdown task the one releasing its
\* reference last closes the connection; so when a command completes
\* without an interrupt, database::cleanup has been called on the
\* connection by the time the process exits.
C19_ClosedOnNormalExit ==
    (pc = "exited" /\ cli.db /\ task = "waiting" /\ ret # None /\ ret[1].st # "panic") =>
        closed

\* What happens instead: the panic hook keeps its clone for the life of the
\* process, and the shutdown task keeps its own until the signal, so no
\* try_unwrap ever succeeds and the connection is never closed.
C19_NeverClosed ==
    /\ ~closed
    /\ (pc \notin {"idle"} /\ cli.db) => "hook" \in refs

\* C20: once the interrupt is received the shutdown task terminates the
\* process without waiting for any other holder of the connection: with
\* other references around it skips the close, logs the warning and goes
\* on to exit.
C20_ShutdownNeverWaits ==
    /\ (task = "signalled") ~> (pc = "exited")
    /\ [][(task = "signalled" /\ pc # "exited" /\ task' # "signalled") =>
             /\ task' = "unwrapped"
             /\ (cli.db /\ refs # {"task"}) =>
                   /\ closed' = closed
                   /\ Len(stdout') = Len(stdout) + 1
                   /\ stdout'[Len(stdout')].kind = "log"
                   /\ stdout'[Len(stdout')].level = "warn"
                   /\ "task" \notin refs']_vars

\* The signal came while the handler held the connection at a prompt; the
\* task logged the warning and exited the process.
C20_Witness ==
    /\ pc = "exited" /\ task = "done" /\ exit_code = Some(0)
    /\ cli.db /\ "handler" \in refs /\ ~closed
    /\ stdout # <<>> /\ stdout[Len(stdout)].kind = "log" /\ stdout[Len(stdout)].level = "warn"

\* C26: db_get_project_by_name returns Ok(None), not an error, for a name
\* that is not registered (never registered, or forgotten), and the
\* project for a name that is registered.
C26_LookupByName ==
    (result.op = "db_get_project_by_name" /\ "projects" \in store.tables) =>
        LET name == result.applied[1]
            rows == {p \in store.projects : p.name = name}
        IN IF rows = {} THEN result.stage = "Ok(None)"
           ELSE result.stage = "Ok(Some)" /\ \E p \in rows : p.id = result.version

\* A registered name is found.
C26_RegisteredFound ==
    (result.op = "db_get_project_by_name" /\ "projects" \in store.tables) =>
        LET name == result.applied[1]
            rows == {p \in store.projects : p.name = name}
        IN rows # {} => result.stage = "Ok(Some)" /\ \E p \in rows : p.id = result.version

\* A name that is not registered gives an error.
C26_MissingIsError ==
    (result.op = "db_get_project_by_name" /\ "projects" \in store.tables) =>
        ((~\E p \in store.projects : p.name = result.applied[1]) => result.stage = "Err")

\* The lookup of a name whose registration was forgotten.
C26_ForgottenLookup ==
    /\ result.op = "db_get_project_by_name" /\ "projects" \in store.tables
    /\ store.sqlite_sequence > 0
    /\ store.projects = {}
    /\ result.stage = "Err"

\* The codes that have a name of their own.
SpecificNames ==
    {<<-31001, "schema_validation_error">>, <<-31002, "field_validation_error">>,
     <<-31003, "format_validation_error">>, <<-30001, "asset_not_found">>,
     <<-30002, "asset_already_exists">>, <<-30003, "asset_in_use">>,
     <<-29001, "project_not_initialized">>, <<-29002, "project_not_registered">>,
     <<-29003, "project_already_exists">>, <<-29004, "template_copy_failed">>,
     <<-28001, "sdk_not_found">>, <<-28002, "schema_load_failed">>}

\* C28: error_type_name gives each specifically defined code its own name,
\* every other code of one of the four ranges the generic name of the range
\* and every code outside the ranges unknown_error.
C28_TypeNames ==
    result.op = "type_name" =>
        LET code == result.version
            name == result.stage
        IN IF \E pr \in SpecificNames : pr[1] = code
           THEN \E pr \in SpecificNames : pr[1] = code /\ pr[2] = name
           ELSE /\ code \in -31999..-31000 => name = "validation_error"
                /\ code \in -30999..-30000 => name = "asset_error"
                /\ code \in -29999..-29000 => name = "project_error"
                /\ code \in -28999..-28000 => name = "sdk_error"
                /\ code \notin -31999..-28000 => name = "unknown_error"

C28_Witness ==
    result.op = "type_name" /\ result.version = -29004 /\ result.stage = "template_copy_failed"

C28_WitnessRange ==
    result.op = "type_name" /\ result.version = -29999 /\ result.stage = "project_error"

C28_WitnessUnknown ==
    result.op = "type_name" /\ result.version = -27999 /\ result.stage = "unknown_error"

\* C27: when the command panics, main reports one error through the
\* renderer the --json flag selects and exits with status 2, in either
\* output mode.
C27_PanicReported ==
    [][(pc = "report" /\ pc' = "exited" /\ task' # "done"
           /\ ret # None /\ ret[1].st = "panic") =>
          /\ exit_code' = Some(2)
          /\ Len(stdout') = Len(stdout) + 1
          /\ SubSeq(stdout', 1, Len(stdout)) = stdout
          /\ LET item == stdout'[Len(stdout')]
             IN IF cli.json
                THEN item.kind = "envelope" /\ ~item.body.ok /\ item.body.error.code = -1
                ELSE item.kind = "log" /\ item.level = "error"]_vars

C27_Witness ==
    /\ pc = "exited" /\ task # "done" /\ cli.json
    /\ ret # None /\ ret[1].st = "panic"
    /\ exit_code = Some(2)
    /\ stdout[Len(stdout)].kind = "envelope"

C27_WitnessInteractive ==
    /\ pc = "exited" /\ task # "done" /\ ~cli.json
    /\ ret # None /\ ret[1].st = "panic"
    /\ exit_code = Some(2)
    /\ stdout[Len(stdout)].kind = "log"

\* The run came to the branch of a name that is already registered (the
\* warning is logged on entering it), and whether it went on to remove the
\* registration.
WarnedTaken ==
    \E i \in 1..Len(stdout) :
        stdout[i].kind = "log" /\ stdout[i].text[1] = "A project with the name "

Unregistered ==
    \E i \in 1..Len(stdout) :
        stdout[i].kind = "log" /\ stdout[i].text = <<"Unregistering previous project...">>

\* C24: a register or init refused because the name is already registered,
\* the registration not being replaced, returns the project-already-exists
\* error (code -29003, exit status 1), in interactive and in
\* non-interactive input mode alike.
C24_TakenNameError ==
    (pc \in {"cleanup", "report", "exited"} /\ cli.cmd.cmd \in {"register", "init"}
        /\ ret # None /\ ret[1].st = "err" /\ WarnedTaken /\ ~Unregistered) =>
        /\ ret[1].err[1].is_cli
        /\ ret[1].err[1].code = -29003
        /\ (pc = "exited" /\ task # "done") => exit_code = Some(1)

\* The same when the confirmation was asked on a terminal and declined.
C24_DeclinedOnTerminal ==
    (pc \in {"cleanup", "report", "exited"} /\ cli.cmd.cmd \in {"register", "init"}
        /\ ret # None /\ ret[1].st = "err" /\ WarnedTaken /\ ~Unregistered
        /\ cli.input_mode = "Interactive" /\ cli.tty) =>
        /\ ret[1].err[1].is_cli
        /\ ret[1].err[1].code = -29003
        /\ (pc = "exited" /\ task # "done") => exit_code = Some(1)

\* Non-interactive input: the refusal is the error of the blocked prompt,
\* with exit status 2.
C24_BlockedPrompt ==
    /\ pc = "exited" /\ task # "done" /\ cli.cmd.cmd = "register"
    /\ cli.input_mode = "NonInteractive"
    /\ ret # None /\ ret[1].st = "err" /\ WarnedTaken /\ ~Unregistered
    /\ ~ret[1].err[1].is_cli
    /\ exit_code = Some(2)

\* The place, among the prompts of a run, of the confirmation that an
\* existing registration may be forgotten.
ForgetPrompt ==
    IF cli.cmd.cmd = "register" THEN 1
    ELSE (IF cli.cmd.name = None THEN 1 ELSE 0) + (IF cli.cmd.template = None THEN 1 ELSE 0) + 1

\* C25: during register and init an existing registration is removed only
\* after the confirmation returned true; when it returns false or fails
\* the registration stays as it was.
C25_ForgetOnlyConfirmed ==
    (pc # "idle" /\ cli.cmd.cmd \in {"register", "init"}) =>
        \/ /\ cli.input_mode = "Interactive" /\ cli.tty
           /\ Len(answers) >= ForgetPrompt
           /\ answers[ForgetPrompt] = "y"
        \/ h0.c.store.projects \subseteq store.projects

\* The registration of the name was replaced after a yes.
C25_Witness ==
    /\ pc = "exited" /\ cli.cmd.cmd = "register" /\ exit_code = Some(0)
    /\ answers = <<"y">>
    /\ \E p \in h0.c.store.projects :
          /\ p \notin store.projects
          /\ \E q \in store.projects : q.name = p.name /\ q.id # p.id

\* The confirmation was declined and the registration is still there.
C25_WitnessDeclined ==
    /\ pc = "exited" /\ cli.cmd.cmd = "init" /\ WarnedTaken
    /\ answers # <<>> /\ answers[Len(answers)] = "n"
    /\ h0.c.store.projects = store.projects
    /\ exit_code = Some(1)

\* The versions that have a record in a store.
Recorded(s) == {r.version : r \in s.schema_migrations}

\* C29: after any sequence of run_migrations and rollback_migration calls,
\* when run_migrations returns success every version of the catalog has a
\* migration record, not only the highest.
C29_FullyMigrated ==
    (result.op = "run_migrations" /\ result.ok) =>
        \A v \in DOMAIN migrations : v \in Recorded(store)

\* What a successful run does give: the highest version of the catalog is
\* recorded.
C29_HighestRecorded ==
    (result.op = "run_migrations" /\ result.ok) =>
        MaxOf(DOMAIN migrations) \in Recorded(store)

\* A run that applied nothing and returned success on a store with a gap.
C29_GapReportedUpToDate ==
    /\ result.op = "run_migrations" /\ result.ok /\ result.applied = <<>>
    /\ Recorded(store) = {1, 3, 4}

\* C30: rolling back the highest applied migration and then running
\* run_migrations restores the store, with the same tables and the same
\* recorded versions as before the rollback; at every version reached by
\* rolling the catalog's migrations back one by one in descending order.
C30_RollbackRerunRestores ==
    [][(edits = 0 /\ result.op = "rollback_migration" /\ result.ok
           /\ result.version = get_current_version(result.before)
           /\ result'.op = "run_migrations") =>
          /\ result'.ok
          /\ store'.tables = result.before.tables
          /\ Recorded(store') = Recorded(result.before)]_vars

\* The same at the latest version only: migration 4 rolled back on a fully
\* migrated store and applied again.
C30_RestoresAtLatest ==
    [][(edits = 0 /\ result.op = "rollback_migration" /\ result.ok
           /\ result.version = MaxOf(DOMAIN migrations)
           /\ Recorded(result.before) = DOMAIN migrations
           /\ result'.op = "run_migrations") =>
          /\ result'.ok
          /\ store'.tables = result.before.tables
          /\ Recorded(store') = Recorded(result.before)]_vars

\* Migrations 4 and 3 were rolled back in turn; the run that follows fails
\* in the statements of migration 3, whose down_sql dropped the projects
\* table.
C30_RerunFailsAtThree ==
    /\ edits = 0
    /\ result.op = "run_migrations" /\ ~result.ok
    /\ result.version = 3 /\ result.stage = "sql"
    /\ Recorded(store) = {1, 2}
    /\ "projects" \notin store.tables /\ "templates" \in store.tables


\* The store a completed apply_migration of the killed migration leaves,
\* from the store its transaction began on.
FullyApplied ==
    apply_migration([store |-> result.before, committed |-> result.before,
                     in_tx |-> FALSE],
                    migrations[result.version], 0).c.store

\* C21: when the process ends while a migration's transaction is open, the
\* reopened store holds either all of that migration (its schema changes
\* and its record) or none of it.
C21_AllOrNothing ==
    result.op = "killed" => store = result.before \/ store = FullyApplied

\* C21 witnesses: a kill after some of the statements (nothing of the
\* migration remains), and a kill after COMMIT (all of it is there).
C21_KilledMidway ==
    /\ result.op = "killed"
    /\ result.applied[1] \in 1..Len(migrations[result.version].up_sql)
    /\ store = result.before
    /\ store # FullyApplied

C21_KilledAfterCommit ==
    /\ result.op = "killed"
    /\ store = FullyApplied
    /\ store # result.before

\* The last call returned began after Database::close and went through a
\* handle obtained before it.
ThroughHandleAfterClose ==
    /\ closed
    /\ result.op \in HandleOps
    /\ result.stage = "after close"

\* C22: after close() no operation on the connection succeeds; one made
\* through a statement, a transaction or a shared reference obtained before
\* the close fails with an error.
C22_NothingAfterClose ==
    ThroughHandleAfterClose /\ result.op # "drop" => ~result.ok

\* C22: a prepared statement, executed after close, inserted its row.
C22_StatementAfterClose ==
    /\ ThroughHandleAfterClose
    /\ result.op = "stmt_execute"
    /\ result.ok
    /\ \E p \in store.projects : p.name = HandleStatement.name

\* C22: a transaction begun before close was committed after it.
C22_CommitAfterClose ==
    /\ ThroughHandleAfterClose
    /\ result.op = "commit"
    /\ result.ok

\* A thread that can take its next step.
CanStep(u) ==
    /\ calls[u].op # "none"
    /\ calls[u].left # <<>> /\ Head(calls[u].left) = "lock" => MutexFree

\* C23: a call holds the connection mutex only until it returns and never
\* asks for it while holding it, so whenever a call is in progress some
\* thread can take a step: no sequence of calls deadlocks, a failed commit
\* followed by the handle's rollback-on-drop included.
C23_MutexPerCall ==
    \A t \in Threads :
        /\ calls[t].op = "none" \/ calls[t].left = <<>> => ~calls[t].guard
        /\ calls[t].left # <<>> /\ Head(calls[t].left) = "lock" => ~calls[t].guard
        /\ calls[t].op # "none" => \E u \in Threads : CanStep(u)
        /\ calls[t].guard => \A u \in Threads \ {t} : ~calls[u].guard

\* C23 witnesses: a commit that failed and whose handle then rolled back on
\* drop has returned; get_current_version took the mutex twice; a thread
\* waits for the mutex another thread's call holds.
C23_FailedCommitDropped ==
    /\ result.op = "commit"
    /\ ~result.ok
    /\ result.applied = <<"lock", "commit", "unlock", "drop", "lock", "drop_rollback", "unlock">>
    /\ ~in_tx
    /\ store = committed

C23_TwoGuards ==
    /\ result.op = "get_current_version"
    /\ result.applied = get_current_version_program

C23_Waiting ==
    \E t, u \in Threads :
        /\ t # u
        /\ calls[u].guard
        /\ calls[t].left # <<>> /\ Head(calls[t].left) = "lock"

\* C31: whenever no DatabaseTransaction handle exists, no transaction is
\* open on the connection; and a handle whose commit failed leaves the
\* connection outside a transaction with none of its writes persisted.
C31_NoHandleNoTransaction ==
    /\ [](tx = <<>> => ~in_tx)
    /\ [][(result'.op = "commit" /\ ~result'.ok /\ tx # <<>>) =>
            /\ ~in_tx'
            /\ committed' = committed
            /\ store' = committed]_vars

\* C31 witnesses: a commit failed with uncommitted writes in the
\* transaction, and they are gone; handles ended by commit, by rollback
\* and by drop have left the connection outside a transaction.
C31_FailedCommit ==
    /\ result.op = "commit" /\ ~result.ok
    /\ result.before # store
    /\ tx = <<>> /\ ~in_tx
    /\ store = committed

C31_Committed ==
    /\ result.op = "commit" /\ result.ok
    /\ tx = <<>> /\ ~in_tx
    /\ store = result.before

C31_RolledBack ==
    /\ result.op = "rollback" /\ result.ok
    /\ result.before # store
    /\ tx = <<>> /\ ~in_tx

\* The init command has ended in an error.
InitFailed ==
    /\ pc \in {"cleanup", "report", "exited"}
    /\ cli.cmd.cmd = "init"
    /\ ret # None /\ ret[1].st = "err"

\* C32: a project init command that ends in an error leaves the registry
\* as it was before the command; an existing registration of the same name
\* is still present.
C32_FailedInitKeepsRegistry ==
    InitFailed => store.projects = h0.c.store.projects

\* C32, what the code does: the registration of the name was forgotten
\* after a yes, then the overwrite of the non-empty directory was declined;
\* the command failed and the registration is gone.
C32_ForgottenThenRefused ==
    /\ InitFailed /\ pc = "exited"
    /\ cli.dir_nonempty
    /\ Len(answers) >= 2
    /\ answers[Len(answers) - 1] = "y" /\ answers[Len(answers)] = "n"
    /\ ret[1].err[1].is_cli /\ ret[1].err[1].code = ERR_PROJECT_ALREADY_EXISTS
    /\ \E p \in h0.c.store.projects : \A q \in store.projects : q.name # p.name

\* C32 where the confirmation to forget was not given: the registry is as
\* it was.
C32_KeptWithoutYes ==
    (InitFailed /\ ~(Len(answers) >= ForgetPrompt /\ answers[ForgetPrompt] = "y"))
        => store.projects = h0.c.store.projects

\* Init has reported success for a project it was to register.
InitSucceeded ==
    /\ pc \in {"cleanup", "report", "exited"}
    /\ cli.cmd.cmd = "init" /\ ~cli.cmd.no_register
    /\ ret # None /\ ret[1].st = "ok"

\* The name init was given: on the command line, or at the first prompt.
InitName == IF cli.cmd.name # None THEN cli.cmd.name[1] ELSE answers[1]

\* C33: whenever project init reports success and --no-register was not
\* given, a project with the transformed name is registered in the store
\* afterwards, whichever template was used.
C33_SuccessMeansRegistered ==
    InitSucceeded => \E p \in store.projects : p.name = transform_name(InitName)

\* C33 witnesses: a successful init registered the transformed name, which
\* was not registered before; an init with a registered template other
\* than the default one ended, in the error of the copy.
C33_Witness ==
    /\ InitSucceeded /\ pc = "exited"
    /\ transform_name(InitName) # InitName
    /\ \E p \in store.projects : p.name = transform_name(InitName)
    /\ \A p \in h0.c.store.projects : p.name # transform_name(InitName)

C33_OtherTemplate ==
    /\ pc = "exited" /\ cli.cmd.cmd = "init" /\ ~cli.cmd.no_register
    /\ cli.cmd.template = Some("o3de") /\ cli.template_row = Some("dir")
    /\ ret # None /\ ret[1].st = "err"
    /\ ret[1].err[1].is_cli /\ ret[1].err[1].code = ERR_TEMPLATE_COPY_FAILED

\* 'project info <name>' has ended, the database was there and no project
\* of that name was registered.
InfoUnregistered ==
    /\ pc = "exited" /\ task # "done"
    /\ cli.cmd.cmd = "info" /\ cli.cmd.name # None
    /\ cli.db
    /\ \A p \in h0.c.store.projects : p.name # cli.cmd.name[1]

\* C34: 'project info <name>' for a name that is not registered fails with
\* the project-not-registered error (code -29002), and so with exit
\* status 1.
C34_InfoNotRegistered ==
    InfoUnregistered =>
        /\ ret # None /\ ret[1].st = "err"
        /\ ret[1].err[1].is_cli
        /\ ret[1].err[1].code = ERR_PROJECT_NOT_REGISTERED
        /\ exit_code = Some(USER_ERROR)

\* C34, what the code does: the error of the lookup is passed on as it is,
\* and main exits with status 2.
C34_LookupErrorPassedOn ==
    InfoUnregistered =>
        /\ ret # None /\ ret[1].st = "err"
        /\ ~ret[1].err[1].is_cli
        /\ exit_code = Some(SYSTEM_ERROR)

C34_Reached ==
    InfoUnregistered /\ exit_code = Some(SYSTEM_ERROR) /\ cli.json

\* main has written the envelope of a CliError in JSON mode.
JsonCliError ==
    /\ pc = "exited" /\ cli.json
    /\ ret # None /\ ret[1].st = "err" /\ ret[1].err[1].is_cli
    /\ stdout # <<>>

\* C35: for every error code, the type string the JSON renderer writes in
\* the error envelope equals error_type_name(code) of the error taxonomy.
C35_RendererTypeIsTaxonomyType ==
    JsonCliError =>
        stdout[Len(stdout)].body.error.type = error_type_name(ret[1].err[1].code)

\* C35, what the code does: the two agree on every code but
\* ERR_TEMPLATE_COPY_FAILED, which the renderer gives the type of its range.
C35_AgreeButTemplateCopy ==
    JsonCliError =>
        stdout[Len(stdout)].body.error.type =
            IF ret[1].err[1].code = ERR_TEMPLATE_COPY_FAILED THEN "project_error"
            ELSE error_type_name(ret[1].err[1].code)

C35_TemplateCopyRendered ==
    /\ JsonCliError
    /\ ret[1].err[1].code = ERR_TEMPLATE_COPY_FAILED
    /\ stdout[Len(stdout)].body.error.type = "project_error"
    /\ error_type_name(ret[1].err[1].code) = "template_copy_failed"

\* verify_migrations was called on a store without the tracking table.
VerifiedFresh ==
    /\ result.op = "verify_migrations"
    /\ "schema_migrations" \notin result.before.tables

\* C36: verify_migrations succeeds on a store that has no applied
\* migrations (version 0, no migration-tracking table), there being no
\* record whose checksum could mismatch.
C36_VerifyFreshStoreSucceeds ==
    VerifiedFresh => result.ok

\* C36, what the code does: on such a store the SELECT cannot be prepared
\* and verify_migrations returns its error.
C36_VerifyFreshStoreFails ==
    VerifiedFresh =>
        /\ ~result.ok /\ result.stage = "no such table"
        /\ get_current_version(result.before) = 0
        /\ result.before.schema_migrations = {}

C36_FreshReached ==
    VerifiedFresh /\ result.before = EmptyStore /\ ~result.ok

\* C37: InteractiveOutput::table never panics and its width arithmetic never
\* leaves the range of usize, whatever JSON array it is given, an array whose
\* first row is an object with no keys included.
C37_TableNeverPanicsNorWraps ==
    result.op = "table" => result.ok /\ result.stage # "wrapped"

\* What the code does: with at least one column the arithmetic stays in
\* range and table returns; with none, `widths.len() - 1` is 0 - 1.
ZeroColumns ==
    /\ table_data.t = "array"
    /\ table_data.a # <<>>
    /\ table_data.a[1].t = "object"
    /\ DOMAIN table_data.a[1].o = {}

C37_OnlyZeroColumnsLeaveRange ==
    result.op = "table" =>
        /\ (~result.ok \/ result.stage = "wrapped") <=> ZeroColumns
        /\ result.stage = "wrapped" => result.version = 0

\* Reached: the panic of a build with overflow checks, the wrap of one
\* without, and a table of two columns drawn.
C37_ZeroColumnsPanic == result.op = "table" /\ ZeroColumns /\ ~result.ok

C37_ZeroColumnsWrap == result.op = "table" /\ ZeroColumns /\ result.stage = "wrapped"

C37_TwoColumnsDrawn ==
    /\ result.op = "table"
    /\ result.stage = "drawn"
    /\ result.applied[1] = 2
    /\ result.version = MaxCell + MaxCell + 2 + 2

\* C38: the crash-log buffer never holds more than 1000 entries, and after
\* any sequence of log calls it holds the most recent entries, at most 1000
\* of them, in the order they arrived: a full buffer gives up its oldest.
C38_BufferHoldsMostRecent ==
    /\ logged = 0 => log_buffer = None
    /\ logged > 0 =>
          /\ log_buffer # None
          /\ Len(log_buffer[1]) <= MAX_LOG_BUFFER_SIZE
          /\ Len(log_buffer[1]) = IF logged < MAX_LOG_BUFFER_SIZE THEN logged
                                  ELSE MAX_LOG_BUFFER_SIZE
          /\ \A i \in DOMAIN log_buffer[1] :
                log_buffer[1][i] = logged - Len(log_buffer[1]) + i

\* Reached: a full buffer that has given up its two oldest entries.
C38_Evicted ==
    /\ logged = MAX_LOG_BUFFER_SIZE + 2
    /\ log_buffer # None
    /\ Len(log_buffer[1]) = MAX_LOG_BUFFER_SIZE
    /\ Head(log_buffer[1]) = 3
    /\ log_buffer[1][MAX_LOG_BUFFER_SIZE] = logged

====
